---- MODULE Spec2Model ----
(***************************************************************************)
(* QuantDinger backend: alert scheduler pass, monitor run, notification    *)
(* dispatch, the realtime price ladder with its cache, and the per-market   *)
(* candle queries with their provider chains.                              *)
(*                                                                         *)
(* Units.  Time is in seconds.  Prices and price thresholds are in         *)
(* hundredths (10000 = 100.00, 9999 = 99.99).  A pnl threshold is in       *)
(* hundredths of a percent.                                                *)
(***************************************************************************)
EXTENDS Integers, Sequences, FiniteSets, TLC

VARIABLES
    now,        \* wall clock / database NOW(), seconds
    alerts,     \* table qd_position_alerts (joined position columns included)
    pass,       \* the running _check_position_alerts call (locals, position)
    armed,      \* history: status writes of the scheduler since the rule was last (re)armed
    monitors,   \* table qd_position_monitors
    positions,  \* table qd_manual_positions: ids of the rows of the monitor's owner
    run,        \* the running run_single_monitor call
    ns,         \* the running SignalNotifier.notify_signal call
    cache,      \* CacheManager store: key -> entry
    cache_ttl,  \* KlineService.cache_ttl (CacheConfig.KLINE_CACHE_TTL)
    call,       \* history: the most recent get_realtime_price call
    prevCall,   \* history: the get_realtime_price call before it
    kcall,      \* history: the most recent get_kline call made on its own
    query,      \* the DataSourceFactory.get_kline call in progress (locals, position)
    agg,        \* the most recent synthetic-timeframe aggregation (input and output)
    wh,         \* the running SignalNotifier._notify_webhook call
    dc,         \* the running SignalNotifier._notify_discord call
    snd,        \* the running _notify_telegram, _notify_email or _notify_phone call
    loop,       \* the scheduler thread: _monitor_loop and the stop event
    rl,         \* the rate limiter of _get_single_price: lock, last-call map, pool workers
    pr,         \* the running get_positions / get_portfolio_summary request
    an,         \* one _run_ai_analysis call: its locals and its result
    sym,    \* one A-share symbol and the provider codes computed from it
    svc         \* the monitor service: _monitor_thread, _stop_event and the loop threads

\* What each subsystem leaves alone.
nonAlertVars == <<monitors, positions, run, ns, cache, cache_ttl, call, prevCall, kcall, query, agg, wh, dc, snd, loop, rl, pr, an, sym, svc>>
nonMonitorVars == <<alerts, pass, armed, ns, cache, cache_ttl, call, prevCall, kcall, query, agg, wh, dc, snd, loop, rl, pr, an, sym, svc>>
nonNotifyVars == <<now, alerts, pass, armed, monitors, positions, run, cache, cache_ttl, call, prevCall, kcall, query, agg, wh, dc, snd, loop, rl, pr, an, sym, svc>>
nonPriceVars == <<alerts, pass, armed, monitors, positions, run, ns, kcall, query, agg, wh, dc, snd, loop, rl, pr, an, sym, svc>>
nonKlineVars == <<alerts, pass, armed, monitors, positions, run, ns, query, agg, wh, dc, snd, loop, rl, pr, an, sym, svc>>
nonQueryVars == <<now, alerts, pass, armed, monitors, positions, run, ns, cache, cache_ttl, call, prevCall, kcall, agg, wh, dc, snd, loop, rl, pr, an, sym, svc>>
nonAggVars == <<now, alerts, pass, armed, monitors, positions, run, ns, cache, cache_ttl, call, prevCall, kcall, query, wh, dc, snd, loop, rl, pr, an, sym, svc>>
nonWebhookVars == <<alerts, pass, armed, monitors, positions, run, ns, cache, cache_ttl, call, prevCall, kcall, query, agg, dc, snd, loop, rl, pr, an, sym, svc>>
nonDiscordVars == <<now, alerts, pass, armed, monitors, positions, run, ns, cache, cache_ttl, call, prevCall, kcall, query, agg, wh, snd, loop, rl, pr, an, sym, svc>>
nonSenderVars == <<now, alerts, pass, armed, monitors, positions, run, ns, cache, cache_ttl, call, prevCall, kcall, query, agg, wh, dc, loop, rl, pr, an, sym, svc>>
nonLoopVars == <<alerts, pass, armed, monitors, positions, run, ns, cache, cache_ttl, call, prevCall, kcall, query, agg, wh, dc, snd, rl, pr, an, sym, svc>>
nonLimiterVars == <<now, alerts, pass, armed, monitors, positions, run, ns, cache, cache_ttl, call, prevCall, kcall, query, agg, wh, dc, snd, loop, pr, an, sym, svc>>
nonRequestVars == <<now, alerts, pass, armed, monitors, positions, run, ns, cache, cache_ttl, call, prevCall, kcall, query, agg, wh, dc, snd, loop, rl, an, sym, svc>>
nonAnalysisVars == <<now, alerts, pass, armed, monitors, positions, run, ns, cache, cache_ttl, call, prevCall, kcall, query, agg, wh, dc, snd, loop, rl, pr, sym, svc>>
nonSymbolVars == <<now, alerts, pass, armed, monitors, positions, run, ns, cache, cache_ttl, call, prevCall, kcall, query, agg, wh, dc, snd, loop, rl, pr, an, svc>>
nonServiceVars == <<now, alerts, pass, armed, monitors, positions, run, ns, cache, cache_ttl, call, prevCall, kcall, query, agg, wh, dc, snd, loop, rl, pr, an, sym>>
vars == <<now, alerts, pass, armed, monitors, positions, run, ns, cache, cache_ttl, call, prevCall, kcall, query, agg, wh, dc, snd, loop, rl, pr, an, sym, svc>>

NULL == -1

\* str.strip() and str.lower() on the channel names the model uses.
Strip(s) ==
    CASE s = " " -> ""
      [] s = " email" -> "email"
      [] s = " Telegram " -> "Telegram"
      [] OTHER -> s

Lower(s) ==
    CASE s = "TELEGRAM" -> "telegram"
      [] s = "Telegram" -> "telegram"
      [] s = "WEBHOOK" -> "webhook"
      [] OTHER -> s

(***************************************************************************)
(* Bounds                                                                  *)
(***************************************************************************)
MaxTriggers == 2

MaxRuns == 2
MaxChannels == 3
MaxCalls == 2
MaxKlineCalls == 3
MaxLimit == 2
MaxBars == 9
MaxDays == 12
MonthDays == 10
MaxMonitors == 11
MaxIterations == 2
MaxAlertRows == 2
MaxClock == 7
MaxTasks == 1
MaxSymbolLen == 3
MaxThreads == 3

(***************************************************************************)
(* Alert rules                                                             *)
(***************************************************************************)
AlertIds == {1, 2}

\* The rule the users go on editing; the other one is left as created.
EditedAlerts == {1}

ValidTypes == {"price_above", "price_below", "pnl_above", "pnl_below"}

RepeatIntervals == {0, 600}

\* Sample points of the clock for the alert scheduler: a trigger at 0 is
\* looked at again after 599, 600 and 601 seconds.
AlertClock == {0, 599, 600, 601}

\* Prices the realtime price service may resolve (0 = no price available).
AlertPrices == {0, 9999, 10000, 10001}

\* notification_config of a rule: the channel list (the key may be absent)
\* and which targets are filled in.
ConfigDefault == [has_channels |-> FALSE, channels |-> <<>>, telegram |-> FALSE, email |-> FALSE]
ConfigBrowser == [has_channels |-> TRUE, channels |-> <<"browser">>, telegram |-> FALSE, email |-> FALSE]
ConfigTelegram == [has_channels |-> TRUE, channels |-> <<"TELEGRAM", "email">>, telegram |-> TRUE, email |-> FALSE]
ConfigWebhook == [has_channels |-> TRUE, channels |-> <<"webhook">>, telegram |-> FALSE, email |-> FALSE]

\* What a rule watches: type, threshold, position_id and the columns the
\* LEFT JOIN adds from the position (none when position_id is NULL, which
\* the pass reads as entry_price = 0, quantity = 0, side = 'long').
SetupPriceAbove ==
    [alert_type |-> "price_above", threshold |-> 10000, position_id |-> NULL,
     entry_price |-> 0, quantity |-> 0, side |-> "long"]
SetupPriceBelow ==
    [alert_type |-> "price_below", threshold |-> 10000, position_id |-> NULL,
     entry_price |-> 0, quantity |-> 0, side |-> "long"]
SetupPnlAbove ==
    [alert_type |-> "pnl_above", threshold |-> 1, position_id |-> 7,
     entry_price |-> 10000, quantity |-> 2, side |-> "long"]
SetupPnlBelow ==
    [alert_type |-> "pnl_below", threshold |-> 0, position_id |-> 7,
     entry_price |-> 10000, quantity |-> 2, side |-> "short"]

\* The rules the users have created: what each watches and how it notifies.
AlertRules ==
    { <<SetupPriceAbove, ConfigTelegram>>, <<SetupPriceBelow, ConfigBrowser>>,
      <<SetupPnlAbove, ConfigWebhook>>, <<SetupPnlBelow, ConfigDefault>> }

\* A row as add_alert inserts it: not triggered, never triggered, count 0.
NewAlert(setup, cfg, active, interval) ==
    [ is_active |-> active, is_triggered |-> FALSE, last_triggered_at |-> NULL,
      trigger_count |-> 0, repeat_interval |-> interval,
      alert_type |-> setup.alert_type, threshold |-> setup.threshold,
      position_id |-> setup.position_id, entry_price |-> setup.entry_price, quantity |-> setup.quantity, side |-> setup.side,
      notification_config |-> cfg ]

\* str(channel).strip().lower()
NormalizeChannel(ch) == Lower(Strip(ch))

\* notification_config.get('channels', ['browser'])
ChannelsOf(cfg) == IF cfg.has_channels THEN cfg.channels ELSE <<"browser">>

\* The SELECT of a pass: the active rows, in any order the store returns them.
ActiveAlertIds == {a \in AlertIds : alerts[a].is_active}

Orderings(S) ==
    {s \in [1..Cardinality(S) -> S] : \A i, j \in 1..Cardinality(S) : s[i] = s[j] => i = j}

SnapshotRow(a) ==
    [ id |-> a, is_triggered |-> alerts[a].is_triggered,
      last_triggered_at |-> alerts[a].last_triggered_at,
      repeat_interval |-> alerts[a].repeat_interval,
      alert_type |-> alerts[a].alert_type, threshold |-> alerts[a].threshold,
      entry_price |-> alerts[a].entry_price, quantity |-> alerts[a].quantity,
      side |-> alerts[a].side, notification_config |-> alerts[a].notification_config ]

\* Mutant: the repeat_interval > 0 test is missing.
CanTriggerAnyInterval(is_triggered, repeat_interval, last_triggered_at, passNow) ==
    \/ ~is_triggered
    \/ /\ is_triggered
       /\ last_triggered_at # NULL
       /\ passNow - last_triggered_at >= repeat_interval

\* Mutant: the elapsed time is compared the wrong way round.
CanTriggerInverted(is_triggered, repeat_interval, last_triggered_at, passNow) ==
    \/ ~is_triggered
    \/ /\ is_triggered
       /\ repeat_interval > 0
       /\ last_triggered_at # NULL
       /\ passNow - last_triggered_at <= repeat_interval

\* can_trigger: not triggered yet, or the repeat interval has passed.
CanTrigger(is_triggered, repeat_interval, last_triggered_at, passNow) ==
    \/ ~is_triggered
    \/ /\ is_triggered
       /\ repeat_interval > 0
       /\ last_triggered_at # NULL
       /\ passNow - last_triggered_at >= repeat_interval

\* pnl_percent = pnl / (entry_price * quantity) * 100, compared with the
\* threshold; both sides are multiplied by entry_price * quantity > 0 so that
\* the comparison is exact in integers (threshold in hundredths of a percent).
PnlScaled(row, price) ==
    IF row.side = "long" THEN (price - row.entry_price) * row.quantity * 10000
                         ELSE (row.entry_price - price) * row.quantity * 10000

\* Mutant: the price comparisons are strict.
AlertTriggeredStrict(row, price) ==
    CASE row.alert_type = "price_above" -> price > row.threshold
      [] row.alert_type = "price_below" -> price < row.threshold
      [] OTHER -> FALSE

\* Mutant: every position is taken for a long one.
AlertTriggeredSideless(row, price) ==
    CASE row.alert_type = "price_above" -> price >= row.threshold
      [] row.alert_type = "price_below" -> price <= row.threshold
      [] row.alert_type \in {"pnl_above", "pnl_below"} ->
            /\ row.entry_price > 0
            /\ row.quantity > 0
            /\ \/ /\ row.alert_type = "pnl_above"
                  /\ (price - row.entry_price) * row.quantity * 10000
                        >= row.threshold * row.entry_price * row.quantity
               \/ /\ row.alert_type = "pnl_below"
                  /\ (price - row.entry_price) * row.quantity * 10000
                        <= row.threshold * row.entry_price * row.quantity
      [] OTHER -> FALSE

\* The comparison of lines 1020-1059 for a resolved price.
AlertTriggered(row, price) ==
    CASE row.alert_type = "price_above" -> price >= row.threshold
      [] row.alert_type = "price_below" -> price <= row.threshold
      [] row.alert_type \in {"pnl_above", "pnl_below"} ->
            /\ row.entry_price > 0
            /\ row.quantity > 0
            /\ \/ /\ row.alert_type = "pnl_above"
                  /\ PnlScaled(row, price) >= row.threshold * row.entry_price * row.quantity
               \/ /\ row.alert_type = "pnl_below"
                  /\ PnlScaled(row, price) <= row.threshold * row.entry_price * row.quantity
      [] OTHER -> FALSE

\* No pass is running.
IdlePass ==
    [pc |-> "idle", now |-> 0, rows |-> <<>>, idx |-> 0, eligible |-> FALSE,
     price |-> 0, triggered |-> FALSE, chIdx |-> 0, writes |-> 0,
     attempted |-> <<>>]

\* The row the pass is at.
CurrentRow == pass.rows[pass.idx]

\* Continue with the next row of the pass, or end the pass.
NextAlert(p) ==
    IF p.idx < Len(p.rows)
    THEN [p EXCEPT !.pc = "eval", !.idx = p.idx + 1, !.eligible = FALSE, !.price = 0,
                   !.triggered = FALSE, !.chIdx = 0, !.writes = 0, !.attempted = <<>>]
    ELSE IdlePass

(***************************************************************************)
(* _check_position_alerts, one step per store or network access            *)
(***************************************************************************)

\* now = datetime.now(utc); SELECT ... WHERE a.is_active = 1
StartPass ==
    /\ pass.pc = "idle"
    /\ \E order \in Orderings(ActiveAlertIds) :
          pass' = IF Len(order) = 0
                  THEN IdlePass
                  ELSE [IdlePass EXCEPT !.pc = "eval", !.now = now, !.idx = 1,
                          !.rows = [i \in 1..Len(order) |-> SnapshotRow(order[i])]]
    /\ UNCHANGED <<now, alerts, armed>>
    /\ UNCHANGED nonAlertVars

\* Mutant: the comparison is made whatever the price lookup gave.
EvaluateUnguarded ==
    /\ pass.pc = "eval"
    /\ LET row == CurrentRow
           can == CanTrigger(row.is_triggered, row.repeat_interval,
                             row.last_triggered_at, pass.now)
       IN IF ~can
          THEN pass' = [pass EXCEPT !.pc = "skip"]
          ELSE \E p \in AlertPrices \cup {NULL} :
                 LET triggered == AlertTriggered(row, p)
                 IN pass' = [pass EXCEPT !.pc = IF triggered THEN "persist" ELSE "skip",
                                         !.eligible = TRUE, !.price = p,
                                         !.triggered = triggered]
    /\ UNCHANGED <<now, alerts, armed>>
    /\ UNCHANGED nonAlertVars

\* The can_trigger gate, the price lookup and the comparison of one row.
\* A row that may not trigger, a lookup that raises (NULL), a price <= 0 and
\* a false comparison all end the row's iteration (pc "skip"); only a true
\* comparison goes on to the status write.
Evaluate ==
    /\ pass.pc = "eval"
    /\ LET row == CurrentRow
           can == CanTrigger(row.is_triggered, row.repeat_interval,
                             row.last_triggered_at, pass.now)
       IN IF ~can
          THEN pass' = [pass EXCEPT !.pc = "skip"]
          ELSE \E p \in AlertPrices \cup {NULL} :
                 LET triggered == p > 0 /\ AlertTriggered(row, p)
                 IN pass' = [pass EXCEPT !.pc = IF triggered THEN "persist" ELSE "skip",
                                         !.eligible = TRUE, !.price = p,
                                         !.triggered = triggered]
    /\ UNCHANGED <<now, alerts, armed>>
    /\ UNCHANGED nonAlertVars

\* `continue`: the loop moves to the next row.
Skip ==
    /\ pass.pc = "skip"
    /\ pass' = NextAlert(pass)
    /\ UNCHANGED <<now, alerts, armed>>
    /\ UNCHANGED nonAlertVars

\* Mutant: the status write is never committed, the pass notifies all the same.
PersistNotCommitted ==
    /\ pass.pc = "persist"
    /\ pass' = [pass EXCEPT !.pc = "notify", !.chIdx = 1]
    /\ UNCHANGED <<now, alerts, armed>>
    /\ UNCHANGED nonAlertVars

\* UPDATE qd_position_alerts SET is_triggered = 1, last_triggered_at = NOW(),
\* trigger_count = trigger_count + 1 WHERE id = ?; commit
Persist ==
    /\ pass.pc = "persist"
    /\ alerts' = [alerts EXCEPT ![CurrentRow.id].is_triggered = TRUE,
                                ![CurrentRow.id].last_triggered_at = now,
                                ![CurrentRow.id].trigger_count = @ + 1]
    /\ armed' = [armed EXCEPT ![CurrentRow.id] = @ + 1]
    /\ pass' = [pass EXCEPT !.pc = "notify", !.chIdx = 1, !.writes = @ + 1]
    /\ UNCHANGED now
    /\ UNCHANGED nonAlertVars

\* The status write raises: the row's except clause skips to the next row.
PersistFails ==
    /\ pass.pc = "persist"
    /\ pass' = NextAlert(pass)
    /\ UNCHANGED <<now, alerts, armed>>
    /\ UNCHANGED nonAlertVars

\* Whether the channel loop of the alert pass makes a delivery for channel ch.
AlertDelivers(ch, cfg) ==
    \/ ch = "browser"
    \/ ch = "telegram" /\ cfg.telegram
    \/ ch = "email" /\ cfg.email

\* One iteration of `for channel in channels`; the delivery's result is not
\* kept by the code, an exception is logged and the loop goes on.
Notify ==
    /\ pass.pc = "notify"
    /\ LET cfg == CurrentRow.notification_config
           channels == ChannelsOf(cfg)
       IN /\ pass.chIdx <= Len(channels)
          /\ LET ch == NormalizeChannel(channels[pass.chIdx])
             IN pass' = [pass EXCEPT !.chIdx = @ + 1,
                                     !.attempted = IF AlertDelivers(ch, cfg)
                                                   THEN Append(@, ch) ELSE @]
    /\ UNCHANGED <<now, alerts, armed>>
    /\ UNCHANGED nonAlertVars

\* The channel loop is exhausted: on to the next row.
FinishAlert ==
    /\ pass.pc = "notify"
    /\ pass.chIdx > Len(ChannelsOf(CurrentRow.notification_config))
    /\ pass' = NextAlert(pass)
    /\ UNCHANGED <<now, alerts, armed>>
    /\ UNCHANGED nonAlertVars

\* The process dies in the middle of a pass; the next pass starts afresh.
Crash ==
    /\ pass.pc # "idle"
    /\ pass' = IdlePass
    /\ UNCHANGED <<now, alerts, armed>>
    /\ UNCHANGED nonAlertVars

\* The clock is read when a pass starts (now, line 959) and by the status write
\* (NOW() in the UPDATE, line 1066); time passing anywhere else in a pass is
\* observed only at the next of these two reads.
TickAlerts ==
    /\ pass.pc \in {"idle", "persist"}
    /\ \E t \in AlertClock : t > now /\ now' = t
    /\ UNCHANGED <<alerts, pass, armed>>
    /\ UNCHANGED nonAlertVars

(***************************************************************************)
(* routes/portfolio.py: update_alert and add_alert                         *)
(***************************************************************************)

\* The JSON bodies of PUT /alerts/<id> the model sends to the running
\* scheduler: is_active or repeat_interval, the other fields absent (a body
\* without any field is answered 400 and changes nothing).
UpdateRequests ==
    {d \in [has_active : BOOLEAN, is_active : BOOLEAN,
            has_interval : BOOLEAN, repeat_interval : RepeatIntervals,
            has_type : {FALSE}, alert_type : {""},
            has_threshold : {FALSE}, threshold : {0}] :
        /\ d.has_active # d.has_interval
        /\ ~d.has_active => ~d.is_active
        /\ ~d.has_interval => d.repeat_interval = 0}

\* Bodies of PUT /alerts/<id> that carry alert_type or threshold, one of the
\* two: a valid and an unknown type, a positive, a zero and a negative threshold.
ParamUpdateRequests ==
    {d \in [has_active : {FALSE}, is_active : {FALSE},
            has_interval : {FALSE}, repeat_interval : {0},
            has_type : BOOLEAN, alert_type : {"", "price_below", "bogus"},
            has_threshold : BOOLEAN, threshold : {0, -500, 10001}] :
        /\ d.has_type # d.has_threshold
        /\ d.has_type <=> d.alert_type # ""
        /\ ~d.has_threshold => d.threshold = 0}

\* Mutant: re-activating leaves is_triggered as it is.
UpdatedRowStillTriggered(row, d) ==
    [row EXCEPT
       !.alert_type = IF d.has_type THEN d.alert_type ELSE @,
       !.threshold = IF d.has_threshold THEN d.threshold ELSE @,
       !.is_active = IF d.has_active THEN d.is_active ELSE @,
       !.repeat_interval = IF d.has_interval THEN d.repeat_interval ELSE @]

\* The SET list update_alert builds from the body: every field present is
\* written as it is given.
UpdatedRow(row, d) ==
    [row EXCEPT
       !.alert_type = IF d.has_type THEN d.alert_type ELSE @,
       !.threshold = IF d.has_threshold THEN d.threshold ELSE @,
       !.is_active = IF d.has_active THEN d.is_active ELSE @,
       !.is_triggered = IF d.has_active /\ d.is_active THEN FALSE ELSE @,
       !.repeat_interval = IF d.has_interval THEN d.repeat_interval ELSE @]

\* The edit puts the rule into a fresh state for the scheduler: it is
\* re-armed or its repeat interval changes.
Rearms(row, new) ==
    \/ row.is_triggered /\ ~new.is_triggered
    \/ row.repeat_interval # new.repeat_interval

UpdateAlert(a, d) ==
    /\ d.has_active /\ d.is_active => alerts[a].trigger_count < MaxTriggers
    /\ alerts' = [alerts EXCEPT ![a] = UpdatedRow(@, d)]
    /\ armed' = [armed EXCEPT ![a] = IF Rearms(alerts[a], UpdatedRow(alerts[a], d)) THEN 0 ELSE @]
    /\ UNCHANGED <<now, pass>>
    /\ UNCHANGED nonAlertVars

\* add_alert for a position that already has an alert: the existing row is
\* updated in place and is_triggered is reset; trigger_count and
\* last_triggered_at are kept.
AddAlertExisting(a, d) ==
    /\ d.alert_type \in ValidTypes
    /\ ~(d.threshold <= 0 /\ d.alert_type \in {"price_above", "price_below"})
    /\ alerts[a].position_id # NULL
    /\ alerts[a].trigger_count < MaxTriggers
    /\ LET new == [alerts[a] EXCEPT
                     !.alert_type = d.alert_type, !.threshold = d.threshold,
                     !.notification_config = d.notification_config,
                     !.is_active = d.is_active, !.is_triggered = FALSE,
                     !.repeat_interval = d.repeat_interval]
       IN /\ alerts' = [alerts EXCEPT ![a] = new]
          /\ armed' = [armed EXCEPT ![a] = IF Rearms(alerts[a], new) THEN 0 ELSE @]
    /\ UNCHANGED <<now, pass>>
    /\ UNCHANGED nonAlertVars

\* The POST /alerts body the model sends for a position that has an alert.
AddRequests ==
    { [alert_type |-> "pnl_above", threshold |-> 1, notification_config |-> ConfigWebhook,
       is_active |-> TRUE, repeat_interval |-> 0] }

\* POST /alerts bodies with parameters add_alert answers 400 to (an unknown
\* type, a price threshold of zero or below) next to ones it accepts.
ParamAddRequests ==
    { [alert_type |-> t, threshold |-> th, notification_config |-> ConfigBrowser,
       is_active |-> TRUE, repeat_interval |-> 0] :
         t \in {"price_above", "pnl_below", "bogus"}, th \in {0, -500, 10001} }

\* PnL rules as the pass may read them: thresholds around 0.01 % (in
\* hundredths of a percent), a position with or without a positive entry
\* price and quantity, long or short, and a rule whose position is not
\* joined (the LEFT JOIN gives NULL columns).
PnlSetups ==
    { [alert_type |-> t, threshold |-> th, position_id |-> 7,
       entry_price |-> e, quantity |-> q, side |-> sd] :
         t \in {"pnl_above", "pnl_below"}, th \in {-1, 0, 1},
         e \in {0, 10000, -10000}, q \in {0, 2, 3, -2}, sd \in {"long", "short"} }
    \cup
    { [alert_type |-> t, threshold |-> th, position_id |-> NULL,
       entry_price |-> 0, quantity |-> 0, side |-> "long"] :
         t \in {"pnl_above", "pnl_below"}, th \in {-1, 0, 1} }
(***************************************************************************)
(* Monitors: run_single_monitor, the scheduler's due query, the routes     *)
(***************************************************************************)
MonitorIds == {1}

\* Account 1 owns the monitor and the positions; account 2 is somebody else.
Users == {1, 2}
Owner == 1

PositionIds == {7}

\* config.interval_minutes as stored; 0 stands for a missing or zero value.
IntervalChoices == {0, 1}

\* Sample points of the clock for the monitor loop (it sleeps 30 s).
MonitorClock == {0, 30, 60, 90}

MonitorTypes == {"ai", "price_alert"}

MonitorChannelLists == { <<>>, <<"browser", "webhook">> }

DefaultIntervalMinutes == 60
SecondsPerMinute == 60

\* int(config.get('interval_minutes') or 60)
IntervalMinutes(stored) == IF stored = 0 THEN DefaultIntervalMinutes ELSE stored

\* A row as add_monitor inserts it at time t.
NewMonitor(type, ids, interval, channels, active, t) ==
    [ user_id |-> Owner, monitor_type |-> type, position_ids |-> ids,
      interval_minutes |-> interval, channels |-> channels, is_active |-> active,
      last_run_at |-> NULL, next_run_at |-> t + SecondsPerMinute * IntervalMinutes(interval),
      run_count |-> 0 ]

\* The locals of run_single_monitor.  before and wrote_at are history: the
\* run_count the row had when the run read it, and the time of the run's
\* UPDATE (NULL while there has been none).
IdleRun ==
    [ pc |-> "idle", monitor_id |-> NULL, monitor_type |-> "", position_ids |-> {},
      interval_minutes |-> 0, channels |-> <<>>, positions |-> {}, result |-> "",
      attempted |-> {}, before |-> NULL, wrote_at |-> NULL ]

\* SELECT ... WHERE id = ? AND user_id = ?; 'Monitor not found' when no row.
RunSingleMonitor(m, uid) ==
    /\ run.pc = "idle"
    /\ monitors[m].run_count < MaxRuns
    /\ run' = IF monitors[m].user_id # uid
              THEN [IdleRun EXCEPT !.pc = "returned", !.monitor_id = m, !.result = "not_found"]
              ELSE [IdleRun EXCEPT !.pc = "positions", !.monitor_id = m,
                      !.monitor_type = monitors[m].monitor_type,
                      !.position_ids = monitors[m].position_ids,
                      !.interval_minutes = monitors[m].interval_minutes,
                      !.channels = monitors[m].channels,
                      !.before = monitors[m].run_count]
    /\ UNCHANGED <<now, monitors, positions>>
    /\ UNCHANGED nonMonitorVars

\* _monitor_loop: WHERE is_active = 1 AND next_run_at <= NOW(), run with the row's user.
SchedulerRun(m) ==
    /\ monitors[m].is_active
    /\ monitors[m].next_run_at <= now
    /\ RunSingleMonitor(m, monitors[m].user_id)

\* POST /monitors/<id>/run by the logged-in user.
RunMonitorNow(m, uid) == RunSingleMonitor(m, uid)

\* _get_positions_for_monitor: the owner's rows named by position_ids, all the
\* owner's rows when position_ids is empty, [] on any exception.
PositionsForMonitor(ids, failed) ==
    IF failed THEN {}
    ELSE IF ids # {} THEN ids \cap positions
    ELSE positions

\* positions = _get_positions_for_monitor(...); if not positions: return
GetPositions ==
    /\ run.pc = "positions"
    /\ \E failed \in BOOLEAN :
          LET found == PositionsForMonitor(run.position_ids, failed)
          IN run' = IF found = {}
                    THEN [run EXCEPT !.pc = "returned", !.result = "no_positions"]
                    ELSE [run EXCEPT !.pc = "analyse", !.positions = found]
    /\ UNCHANGED <<now, monitors, positions>>
    /\ UNCHANGED nonMonitorVars

\* _run_ai_analysis for type 'ai' (success, or success False on an exception),
\* 'Unsupported monitor type' for the rest.
Analyse ==
    /\ run.pc = "analyse"
    /\ \E ok \in BOOLEAN :
          run' = [run EXCEPT !.pc = "update",
                    !.result = IF run.monitor_type # "ai" THEN "unsupported"
                               ELSE IF ok THEN "success" ELSE "analysis_failed"]
    /\ UNCHANGED <<now, monitors, positions>>
    /\ UNCHANGED nonMonitorVars

\* UPDATE ... SET last_run_at = NOW(), next_run_at = NOW() + interval,
\* run_count = run_count + 1 WHERE id = ?; then the notification only when
\* notification_config has channels.
RunUpdate ==
    /\ run.pc = "update"
    /\ monitors' = [monitors EXCEPT ![run.monitor_id] =
                      [@ EXCEPT !.last_run_at = now,
                                !.next_run_at = now + SecondsPerMinute * IntervalMinutes(run.interval_minutes),
                                !.run_count = @ + 1]]
    /\ run' = [run EXCEPT !.pc = IF Len(run.channels) > 0 THEN "notify" ELSE "returned",
                          !.wrote_at = now]
    /\ UNCHANGED <<now, positions>>
    /\ UNCHANGED nonMonitorVars

\* The store raises: the outer except returns success False, nothing written.
RunUpdateFails ==
    /\ run.pc = "update"
    /\ run' = [run EXCEPT !.pc = "returned", !.result = "store_error"]
    /\ UNCHANGED <<now, monitors, positions>>
    /\ UNCHANGED nonMonitorVars

\* _send_monitor_notification: the branches of its two channel loops (the
\* targets are filled in; the failure report has no webhook branch).
MonitorDelivers(ch, success) ==
    \/ ch \in {"browser", "telegram", "email"}
    \/ success /\ ch = "webhook"

RunNotify ==
    /\ run.pc = "notify"
    /\ run' = [run EXCEPT !.pc = "returned",
                 !.attempted = { NormalizeChannel(run.channels[i]) : i \in
                                   { j \in 1..Len(run.channels) :
                                       MonitorDelivers(NormalizeChannel(run.channels[j]),
                                                       run.result = "success") } }]
    /\ UNCHANGED <<now, monitors, positions>>
    /\ UNCHANGED nonMonitorVars

\* The caller has the result.
RunReturn ==
    /\ run.pc = "returned"
    /\ run' = IdleRun
    /\ UNCHANGED <<now, monitors, positions>>
    /\ UNCHANGED nonMonitorVars

\* PUT /monitors/<id>: the bodies the model sends, one field each.
MonitorUpdates ==
    { [field |-> "is_active", is_active |-> b, interval |-> 0] : b \in BOOLEAN } \cup
    { [field |-> "config", is_active |-> TRUE, interval |-> i] : i \in IntervalChoices }

\* A config in the body also sets next_run_at = NOW() + interval.
UpdateMonitor(m, uid, d) ==
    /\ monitors[m].user_id = uid
    /\ monitors' = [monitors EXCEPT ![m] =
                      IF d.field = "is_active"
                      THEN [@ EXCEPT !.is_active = d.is_active]
                      ELSE [@ EXCEPT !.interval_minutes = d.interval,
                                     !.next_run_at = now + SecondsPerMinute * IntervalMinutes(d.interval)]]
    /\ UNCHANGED <<now, positions, run>>
    /\ UNCHANGED nonMonitorVars

\* DELETE /positions/<id>
DeletePosition(p) ==
    /\ p \in positions
    /\ positions' = positions \ {p}
    /\ UNCHANGED <<now, monitors, run>>
    /\ UNCHANGED nonMonitorVars

TickMonitors ==
    /\ \E t \in MonitorClock : t > now /\ now' = t
    /\ UNCHANGED <<monitors, positions, run>>
    /\ UNCHANGED nonMonitorVars

(***************************************************************************)
(* services/signal_notifier.py: SignalNotifier.notify_signal               *)
(***************************************************************************)
\* Entries a notification_config.channels list may hold.
RawChannels == {"webhook", "WEBHOOK", "telegram", "sms", " "}

SupportedChannels == {"browser", "webhook", "discord", "telegram", "email", "phone"}

\* What a channel's sender does: returns (True, ""), returns (False, err), raises.
SenderOutcomes == {"sent", "refused", "raised"}

RECURSIVE ListsUpTo(_)
ListsUpTo(n) ==
    IF n = 0 THEN { <<>> }
    ELSE ListsUpTo(n - 1) \cup
         { Append(s, c) : s \in { t \in ListsUpTo(n - 1) : Len(t) = n - 1 }, c \in RawChannels }

\* _as_list on a list: every entry stripped, blank entries dropped.
AsList(value) ==
    LET stripped == [i \in 1..Len(value) |-> Strip(value[i])]
    IN SelectSeq(stripped, LAMBDA x : x # "")

\* channels = _as_list(cfg.get("channels")); if not channels: channels = ["browser"]
SignalChannels(cfg) ==
    LET listed == IF cfg.has_channels THEN AsList(cfg.channels) ELSE <<>>
    IN IF Len(listed) = 0 THEN <<"browser">> ELSE listed

\* The locals of notify_signal.  attempts is history: the channel and what its
\* sender did, for every iteration of the loop that reached the try block.
IdleNotify ==
    [ pc |-> "idle", channels |-> <<>>, idx |-> 0, results |-> {}, attempts |-> <<>> ]

\* results[c] = {...}: one entry per key, a later assignment replaces the earlier.
Assign(results, c, ok, error) ==
    { r \in results : r.channel # c } \cup { [channel |-> c, ok |-> ok, error |-> error] }

NotifySignal(cfg) ==
    /\ ns.pc = "idle"
    /\ ns' = [IdleNotify EXCEPT !.pc = "loop", !.channels = SignalChannels(cfg), !.idx = 1]
    /\ UNCHANGED nonNotifyVars

\* (ok, err) of one iteration: the sender's return value, (False,
\* "unsupported_channel:c") for a name with no branch, (False, str(e)) when the
\* sender raises.
ChannelResult(c, outcome) ==
    IF c \notin SupportedChannels THEN [ok |-> FALSE, error |-> "unsupported_channel"]
    ELSE IF outcome = "sent" THEN [ok |-> TRUE, error |-> ""]
    ELSE IF outcome = "refused" THEN [ok |-> FALSE, error |-> "send_failed"]
    ELSE [ok |-> FALSE, error |-> "exception"]

\* A loop in which the exception of a sender leaves the function.
NotifyChannelAborting ==
    /\ ns.pc = "loop"
    /\ ns.idx <= Len(ns.channels)
    /\ \E outcome \in SenderOutcomes :
          LET c == Lower(Strip(ns.channels[ns.idx]))
              r == ChannelResult(c, outcome)
          IN ns' = IF outcome = "raised" /\ c \in SupportedChannels
                   THEN [ns EXCEPT !.pc = "returned"]
                   ELSE [ns EXCEPT !.idx = @ + 1,
                           !.results = Assign(@, c, r.ok, r.error),
                           !.attempts = Append(@, [channel |-> c, ok |-> r.ok, error |-> r.error])]
    /\ UNCHANGED nonNotifyVars

\* One iteration of `for ch in channels`.
NotifyChannel ==
    /\ ns.pc = "loop"
    /\ ns.idx <= Len(ns.channels)
    /\ \E outcome \in SenderOutcomes :
          LET c == Lower(Strip(ns.channels[ns.idx]))
              r == ChannelResult(c, outcome)
          IN ns' = IF c = ""
                   THEN [ns EXCEPT !.idx = @ + 1]
                   ELSE [ns EXCEPT !.idx = @ + 1,
                           !.results = Assign(@, c, r.ok, r.error),
                           !.attempts = Append(@, [channel |-> c, ok |-> r.ok, error |-> r.error])]
    /\ UNCHANGED nonNotifyVars

\* return results
NotifyReturn ==
    /\ ns.pc = "loop"
    /\ ns.idx > Len(ns.channels)
    /\ ns' = [ns EXCEPT !.pc = "returned"]
    /\ UNCHANGED nonNotifyVars

\* The caller has the map.
NotifyDone ==
    /\ ns.pc = "returned"
    /\ ns' = IdleNotify
    /\ UNCHANGED nonNotifyVars

(***************************************************************************)
(* services/kline.py: KlineService.get_kline and get_realtime_price over   *)
(* the CacheManager store, for one market and symbol                       *)
(***************************************************************************)
\* realtime_price:{market}:{symbol}, kline:{market}:{symbol}:1m:2, kline:...:1D:2
CacheKeys == {"realtime_price", "kline_1m", "kline_1D"}

\* Sample points of the clock around the 30 s and 300 s lifetimes.
PriceClock == {0, 29, 30, 300}

TickerTtl == 30
MinuteKlineTtl == 30
DailyKlineTtl == 300
DefaultCacheTtl == 300

\* KLINE_CACHE_TTL settings: a lifetime per timeframe, NULL for no entry.
CacheTtlSettings ==
    { [tf \in {"1m", "1D"} |-> NULL],
      [tf \in {"1m", "1D"} |-> IF tf = "1m" THEN 60 ELSE 300] }

\* The 'last' of what DataSourceFactory.get_ticker gives; 0 also stands for a
\* ticker without data (the factory's own answer to a failing source is
\* {'last': 0}), NULL for a call that raises.
TickerAnswers == {NULL, 0, 10000, 10100}

Candle(c) == [open |-> 10000, close |-> c]

\* What DataSourceFactory.get_kline gives for limit 2: a list, empty on failure.
MinuteAnswers == { <<>>, <<Candle(0)>>, <<Candle(10100)>>, <<Candle(10000), Candle(10100)>> }
DailyAnswers == { <<>>, <<Candle(0)>>, <<Candle(10000), Candle(10100)>> }

\* The result get_realtime_price starts from.
UnknownPrice == [price |-> 0, change |-> 0, previousClose |-> 0, source |-> "unknown"]

\* An entry holds a realtime snapshot (value) or a candle list (klines); an
\* entry that was never set has expiry 0.
EmptyCache ==
    [k \in CacheKeys |-> [value |-> UnknownPrice, klines |-> <<>>, expires |-> 0]]

\* CacheManager.get: the entry is served until its expiry, never after.
CacheHit(c, key) == now < c[key].expires

\* CacheManager.set(key, value, ttl) for a realtime snapshot and for a candle list.
CacheSetPrice(c, value, ttl) ==
    [c EXCEPT !["realtime_price"] = [value |-> value, klines |-> <<>>, expires |-> now + ttl]]

CacheSetKlines(c, key, klines, ttl) ==
    [c EXCEPT ![key] = [value |-> UnknownPrice, klines |-> klines, expires |-> now + ttl]]

KlineKey(timeframe) == IF timeframe = "1m" THEN "kline_1m" ELSE "kline_1D"

\* self.cache_ttl.get(timeframe, 300)
KlineTtl(timeframe) ==
    IF cache_ttl[timeframe] = NULL THEN DefaultCacheTtl ELSE cache_ttl[timeframe]

\* A get_kline that treats a query with before_time like one without.
GetKlineIgnoringBeforeTime(c, timeframe, before_time, answer) ==
    IF CacheHit(c, KlineKey(timeframe)) /\ Len(c[KlineKey(timeframe)].klines) > 0
    THEN [klines |-> c[KlineKey(timeframe)].klines, cache |-> c, cached |-> TRUE]
    ELSE [klines |-> answer,
          cache |-> IF Len(answer) > 0
                    THEN CacheSetKlines(c, KlineKey(timeframe), answer, KlineTtl(timeframe))
                    ELSE c,
          cached |-> FALSE]

\* get_kline: the cached list unless before_time is given, else the provider's
\* list, cached when it is not empty and before_time is not given.  Gives the
\* list, the cache afterwards and whether the list came from the cache.
GetKline(c, timeframe, before_time, answer) ==
    IF ~before_time /\ CacheHit(c, KlineKey(timeframe)) /\ Len(c[KlineKey(timeframe)].klines) > 0
    THEN [klines |-> c[KlineKey(timeframe)].klines, cache |-> c, cached |-> TRUE]
    ELSE [klines |-> answer,
          cache |-> IF Len(answer) > 0 /\ ~before_time
                    THEN CacheSetKlines(c, KlineKey(timeframe), answer, KlineTtl(timeframe))
                    ELSE c,
          cached |-> FALSE]

\* The result of a candle step: price = latest close, previousClose = the
\* close before it (the latest open when there is one candle), change = the
\* difference when previousClose is not 0.
FromKlines(klines, source) ==
    LET latest == klines[Len(klines)]
        prev_close == IF Len(klines) > 1 THEN klines[Len(klines) - 1].close ELSE latest.open
    IN [price |-> latest.close,
        change |-> IF prev_close # 0 THEN latest.close - prev_close ELSE 0,
        previousClose |-> prev_close, source |-> source]

FromTicker(last) == [price |-> last, change |-> 0, previousClose |-> 0, source |-> "ticker"]

\* A lookup that never consults the realtime snapshot.
ReadsRealtimeCacheNever(force_refresh) == FALSE

\* if not force_refresh: cached = self.cache.get(cache_key)
ReadsRealtimeCache(force_refresh) == ~force_refresh

\* Mutant: the unknown result is cached like a ticker result.
AllFailedCached(c) ==
    [result |-> UnknownPrice, cache |-> CacheSetPrice(c, UnknownPrice, TickerTtl),
     kline_cached |-> FALSE, raised |-> FALSE]

\* return result (line 189) with the result the call started from: no step
\* gave a price, and there is no cache.set on this path.
AllFailed(c) ==
    [result |-> UnknownPrice, cache |-> c, kline_cached |-> FALSE, raised |-> FALSE]

\* A ladder whose ticker step lets the exception of get_ticker leave the call.
LadderUncaught(c, ticker, answer1m, answer1D) ==
    IF ticker = NULL
    THEN [result |-> UnknownPrice, cache |-> c, kline_cached |-> FALSE, raised |-> TRUE]
    ELSE IF ticker > 0
    THEN [result |-> FromTicker(ticker), cache |-> CacheSetPrice(c, FromTicker(ticker), TickerTtl),
          kline_cached |-> FALSE, raised |-> FALSE]
    ELSE LET m == GetKline(c, "1m", FALSE, answer1m)
         IN IF Len(m.klines) > 0
            THEN [result |-> FromKlines(m.klines, "kline_1m"),
                  cache |-> CacheSetPrice(m.cache, FromKlines(m.klines, "kline_1m"), MinuteKlineTtl),
                  kline_cached |-> m.cached, raised |-> FALSE]
            ELSE LET d == GetKline(m.cache, "1D", FALSE, answer1D)
                 IN IF Len(d.klines) > 0
                    THEN [result |-> FromKlines(d.klines, "kline_1d"),
                          cache |-> CacheSetPrice(d.cache, FromKlines(d.klines, "kline_1d"), DailyKlineTtl),
                          kline_cached |-> d.cached, raised |-> FALSE]
                    ELSE AllFailed(d.cache)

\* The ladder past the cache lookup: ticker, 1m candles, 1D candles, unknown;
\* an exception of get_ticker is caught and the ladder goes on.  Gives the
\* result, the cache afterwards, whether a candle list came from the cache
\* and whether an exception left the call.
Ladder(c, ticker, answer1m, answer1D) ==
    IF ticker # NULL /\ ticker > 0
    THEN [result |-> FromTicker(ticker), cache |-> CacheSetPrice(c, FromTicker(ticker), TickerTtl),
          kline_cached |-> FALSE, raised |-> FALSE]
    ELSE LET m == GetKline(c, "1m", FALSE, answer1m)
         IN IF Len(m.klines) > 0
            THEN [result |-> FromKlines(m.klines, "kline_1m"),
                  cache |-> CacheSetPrice(m.cache, FromKlines(m.klines, "kline_1m"), MinuteKlineTtl),
                  kline_cached |-> m.cached, raised |-> FALSE]
            ELSE LET d == GetKline(m.cache, "1D", FALSE, answer1D)
                 IN IF Len(d.klines) > 0
                    THEN [result |-> FromKlines(d.klines, "kline_1d"),
                          cache |-> CacheSetPrice(d.cache, FromKlines(d.klines, "kline_1d"), DailyKlineTtl),
                          kline_cached |-> d.cached, raised |-> FALSE]
                    ELSE AllFailed(d.cache)

\* History of a call: when it was made, its flag, what it returned, whether
\* the realtime snapshot or a cached candle list served it, what the ticker
\* would have answered, until when the snapshot it used or wrote is served
\* (30 s on when it left none), the number of calls so far, whether the call
\* ran the ladder with nothing to find (no positive ticker last, no 1m and no
\* 1D candles from cache or provider) and whether it raised.
NoCall ==
    [ n |-> 0, time |-> 0, force_refresh |-> FALSE, result |-> UnknownPrice,
      snapshot_cached |-> FALSE, kline_cached |-> FALSE, ticker |-> 0, window_end |-> 0,
      all_failed |-> FALSE, raised |-> FALSE ]

GetRealtimePrice(force_refresh, ticker, answer1m, answer1D) ==
    /\ call.n < MaxCalls
    /\ LET hit == ReadsRealtimeCache(force_refresh) /\ CacheHit(cache, "realtime_price")
           l == Ladder(cache, ticker, answer1m, answer1D)
           result == IF hit THEN cache["realtime_price"].value ELSE l.result
           after == IF hit THEN cache ELSE l.cache
       IN /\ cache' = after
          /\ call' = [ n |-> call.n + 1, time |-> now, force_refresh |-> force_refresh,
                       result |-> result, snapshot_cached |-> hit,
                       kline_cached |-> ~hit /\ l.kline_cached, ticker |-> ticker,
                       window_end |-> IF now < after["realtime_price"].expires
                                      THEN after["realtime_price"].expires
                                      ELSE now + TickerTtl,
                       all_failed |-> /\ ~hit
                                      /\ ticker = NULL \/ ticker <= 0
                                      /\ Len(GetKline(cache, "1m", FALSE, answer1m).klines) = 0
                                      /\ Len(GetKline(cache, "1D", FALSE, answer1D).klines) = 0,
                       raised |-> ~hit /\ l.raised ]
          /\ prevCall' = call
    /\ UNCHANGED <<now, cache_ttl>>
    /\ UNCHANGED nonPriceVars

TickPrice ==
    /\ \E t \in PriceClock : t > now /\ now' = t
    /\ UNCHANGED <<cache, cache_ttl, call, prevCall>>
    /\ UNCHANGED nonPriceVars

\* History of a get_kline call made on its own (the candle route, the
\* deprecated get_latest_price): its arguments, the provider's answer, the
\* list returned and whether that list came from the cache.
NoKlineCall ==
    [ n |-> 0, timeframe |-> "1m", before_time |-> FALSE, answer |-> <<>>,
      klines |-> <<>>, cached |-> FALSE ]

\* The provider's possible answers for a timeframe.
AnswersFor(timeframe) == IF timeframe = "1m" THEN MinuteAnswers ELSE DailyAnswers

GetKlineCall(timeframe, before_time, answer) ==
    /\ kcall.n < MaxKlineCalls
    /\ LET k == GetKline(cache, timeframe, before_time, answer)
       IN /\ cache' = k.cache
          /\ kcall' = [ n |-> kcall.n + 1, timeframe |-> timeframe, before_time |-> before_time,
                        answer |-> answer, klines |-> k.klines, cached |-> k.cached ]
    /\ UNCHANGED <<now, cache_ttl, call, prevCall>>
    /\ UNCHANGED nonKlineVars


(***************************************************************************)
(* Candle queries: DataSourceFactory.get_kline and the per-market provider *)
(* chains (data_sources/factory.py, cn_stock.py, us_stock.py, futures.py,  *)
(* base.py).  Candle times are small integers; a candle carries the        *)
(* provider it came from (src) and a close that tells two rows of the same *)
(* time apart.                                                             *)
(***************************************************************************)
QueryTargets ==
    { <<"AShare", "600000">>, <<"AShare", "900001">>, <<"HShare", "00700">>,
      <<"Futures", "GC=F">>, <<"Futures", "BTC">>, <<"Bond", "X1">> }

QueryTimeframes == {"1D", "1H"}
Limits == 1..MaxLimit
BeforeTimes == {NULL, 0, 2, 3}

\* Python truthiness of before_time in `if before_time:` (None and 0 are falsy).
Truthy(before_time) == before_time # NULL /\ before_time # 0

\* The row times a provider may answer with: nothing, one row, ascending rows,
\* unordered rows, and rows two of which carry the same time.
RowTimes == { <<>>, <<2>>, <<1, 2>>, <<3, 1, 2>>, <<1, 2, 2>> }

Rows(p, ts) == [i \in 1..Len(ts) |-> [time |-> ts[i], close |-> 100 + i, src |-> p]]

LastN(s, n) == IF Len(s) > n THEN SubSeq(s, Len(s) - n + 1, Len(s)) ELSE s

InsertByTime(s, x) ==
    LET k == Cardinality({i \in 1..Len(s) : s[i].time <= x.time})
    IN SubSeq(s, 1, k) \o <<x>> \o SubSeq(s, k + 1, Len(s))

\* list.sort(key=lambda x: x['time']): stable, ascending.
RECURSIVE SortByTime(_)
SortByTime(s) ==
    IF s = <<>> THEN <<>>
    ELSE InsertByTime(SortByTime(SubSeq(s, 1, Len(s) - 1)), s[Len(s)])

FilterAndLimit(klines, limit, before_time) ==
    LET sorted == SortByTime(klines)
        filtered == IF Truthy(before_time)
                    THEN SelectSeq(sorted, LAMBDA k : k.time < before_time)
                    ELSE sorted
    IN LastN(filtered, limit)

NoQuery ==
    [ pc |-> "idle", market |-> "", symbol |-> "", timeframe |-> "", limit |-> 0,
      before_time |-> NULL, has_akshare |-> FALSE, finnhub_client |-> FALSE,
      at |-> 0, invoked |-> <<>>, excepted |-> <<>>, yields |-> <<>>, df_empty |-> FALSE,
      klines |-> <<>>, result |-> <<>>, caught |-> FALSE, raised |-> FALSE ]

SupportedMarkets == {"Crypto", "USStock", "AShare", "HShare", "Forex", "Futures"}

\* AShareDataSource._to_yahoo_symbol: None unless the code starts with 6, 0, 3, 4 or 8.
\* HShareDataSource._to_yahoo_symbol always yields a symbol.
HasYahooSymbol(market, symbol) ==
    IF market = "AShare" THEN symbol = "600000" ELSE TRUE

IsTraditionalFuture(symbol) == symbol = "GC=F"

\* The providers of a market in the order the code reaches them.
Declared(market, symbol) ==
    CASE market = "AShare" -> <<"eastmoney", "yfinance", "finnhub", "akshare">>
      [] market = "HShare" -> <<"tencent", "eastmoney", "yfinance", "finnhub", "akshare">>
      [] market = "Futures" ->
            IF IsTraditionalFuture(symbol) THEN <<"yf_futures">> ELSE <<"ccxt">>
      [] OTHER -> <<>>

Applicable(q, p) ==
    CASE p = "tencent" -> q.timeframe \in {"1D", "1W"}
      [] p = "yfinance" -> q.timeframe \in {"1D", "1W"} /\ HasYahooSymbol(q.market, q.symbol)
      [] p = "finnhub" -> q.df_empty /\ q.finnhub_client /\ q.timeframe = "1D"
      [] p = "akshare" -> q.has_akshare /\ q.timeframe \in {"1D", "1W"}
      [] OTHER -> TRUE

NextProvider(q) ==
    LET d == Declared(q.market, q.symbol)
        rest == {i \in (q.at + 1)..Len(d) : Applicable(q, d[i])}
    IN IF rest = {} THEN 0 ELSE CHOOSE i \in rest : \A j \in rest : i <= j

\* What the upstream may answer.  finnhub and akshare are asked for rows up to
\* before_time (to=end_ts, end_date) and the exchange for at most `limit` rows;
\* the yfinance requests end a day after before_time.
ProviderOutcomes(q, p) ==
    LET bounded(rows) ==
            IF p \in {"finnhub", "akshare"} /\ Truthy(q.before_time)
            THEN SelectSeq(rows, LAMBDA k : k.time <= q.before_time)
            ELSE IF p = "ccxt" THEN SubSeq(rows, 1, IF Len(rows) > q.limit THEN q.limit ELSE Len(rows))
            ELSE rows
    IN { [raises |-> FALSE, rows |-> bounded(Rows(p, ts))] : ts \in RowTimes }
         \cup { [raises |-> TRUE, rows |-> <<>>] }

\* The list the resolver tests with `if klines:` after calling the provider.
\* Every adapter catches its own exception and returns the empty list.
Yield(q, p, o) ==
    IF o.raises THEN <<>>
    ELSE CASE p = "yfinance" ->
                 IF o.rows = <<>> THEN <<>>
                 ELSE FilterAndLimit(LastN(o.rows, q.limit), q.limit, q.before_time)
           [] p = "akshare" -> LastN(o.rows, q.limit)
           [] p = "yf_futures" -> LastN(SortByTime(o.rows), q.limit)
           [] OTHER -> o.rows

\* What the resolver returns once the provider's list is not empty.
Returned(q, p, o) ==
    IF p \in {"eastmoney", "tencent"}
    THEN FilterAndLimit(Yield(q, p, o), q.limit, q.before_time)
    ELSE Yield(q, p, o)

\* source.get_kline has returned klines; the factory sorts and returns them.
Return(q, klines) ==
    [q EXCEPT !.pc = "done", !.klines = klines, !.result = SortByTime(klines)]

\* Mutant: an adapter's exception leaves the chain; the factory's handler
\* turns it into the empty list.
AfterProviderAborting(q, p, o) ==
    LET d == Declared(q.market, q.symbol)
        i == CHOOSE i \in 1..Len(d) : d[i] = p
        q1 == [q EXCEPT !.at = i, !.invoked = Append(@, p),
                        !.excepted = Append(@, o.raises),
                        !.yields = Append(@, Yield(q, p, o) # <<>>),
                        !.df_empty = IF p = "yfinance" THEN o.raises \/ o.rows = <<>> ELSE @]
    IN IF o.raises THEN [q1 EXCEPT !.pc = "done", !.caught = TRUE]
       ELSE IF Yield(q, p, o) # <<>> THEN Return(q1, Returned(q, p, o))
       ELSE IF NextProvider(q1) = 0 THEN Return(q1, <<>>)
       ELSE q1

\* Mutant: a later provider is still asked after one has answered, and the
\* rows are put together.
AfterProviderMerging(q, p, o) ==
    LET d == Declared(q.market, q.symbol)
        i == CHOOSE i \in 1..Len(d) : d[i] = p
        q1 == [q EXCEPT !.at = i, !.invoked = Append(@, p),
                        !.excepted = Append(@, o.raises),
                        !.yields = Append(@, Yield(q, p, o) # <<>>),
                        !.klines = @ \o Returned(q, p, o),
                        !.df_empty = IF p = "yfinance" THEN o.raises \/ o.rows = <<>> ELSE @]
    IN IF NextProvider(q1) = 0 THEN Return(q1, q1.klines) ELSE q1

\* One provider of the chain has been called with outcome o.
AfterProvider(q, p, o) ==
    LET d == Declared(q.market, q.symbol)
        i == CHOOSE i \in 1..Len(d) : d[i] = p
        q1 == [q EXCEPT !.at = i, !.invoked = Append(@, p),
                        !.excepted = Append(@, o.raises),
                        !.yields = Append(@, Yield(q, p, o) # <<>>),
                        !.df_empty = IF p = "yfinance" THEN o.raises \/ o.rows = <<>> ELSE @]
    IN IF Yield(q, p, o) # <<>> THEN Return(q1, Returned(q, p, o))
       ELSE IF NextProvider(q1) = 0 THEN Return(q1, <<>>)
       ELSE q1

\* DataSourceFactory.get_kline is called.  An unsupported market makes
\* get_source raise ValueError inside the try: the handler returns [].
StartQuery(market, symbol, timeframe, limit, before_time, has_akshare, finnhub_client) ==
    /\ query.pc \in {"idle", "done"}
    /\ LET q == [NoQuery EXCEPT !.market = market, !.symbol = symbol,
                                !.timeframe = timeframe, !.limit = limit,
                                !.before_time = before_time,
                                !.has_akshare = has_akshare,
                                !.finnhub_client = finnhub_client]
       IN query' = IF market \in SupportedMarkets
                   THEN [q EXCEPT !.pc = "chain"]
                   ELSE [q EXCEPT !.pc = "done", !.caught = TRUE]
    /\ UNCHANGED nonQueryVars

\* The next applicable provider is called and answers.
InvokeProvider ==
    /\ query.pc = "chain"
    /\ NextProvider(query) # 0
    /\ LET p == Declared(query.market, query.symbol)[NextProvider(query)]
       IN \E o \in ProviderOutcomes(query, p) : query' = AfterProvider(query, p, o)
    /\ UNCHANGED nonQueryVars

(***************************************************************************)
(* Synthetic timeframes: 4H candles from 1H candles                        *)
(* (cn_stock.py, TencentDataMixin._fetch_and_aggregate_4h) and weekly and  *)
(* monthly candles from daily candles (forex.py, ForexDataSource).         *)
(*                                                                         *)
(* Here a timestamp counts hours, hour 0 being a Monday 00:00 UTC that is  *)
(* also the first day of a month.  Prices are in ten-thousandths and       *)
(* volumes in hundredths, the precision format_kline rounds to, so that    *)
(* rounding a candle built from formatted candles changes nothing.  The    *)
(* calendar has months of MonthDays days.                                  *)
(***************************************************************************)
HoursPerDay == 24
DaysPerWeek == 7
BatchSize == 4
MaxWeeklyLimit == 100
MaxMonthlyLimit == 36

\* Offset of the server's local time from UTC, in hours.
TimezoneOffsets == {0, 8}

Profiles ==
    << [open |-> 10, high |-> 12, low |-> 9, close |-> 11, volume |-> 5],
       [open |-> 11, high |-> 15, low |-> 10, close |-> 14, volume |-> 7],
       [open |-> 14, high |-> 14, low |-> 6, close |-> 7, volume |-> 0] >>

\* A source candle at time t with the OHLCV of profile j.
Bar(t, j) ==
    [ time |-> t, open |-> Profiles[j].open, high |-> Profiles[j].high,
      low |-> Profiles[j].low, close |-> Profiles[j].close, volume |-> Profiles[j].volume ]

\* n consecutive 1H candles starting at hour `first`.
HourKlines(first, n, v) == [i \in 1..n |-> Bar(first + i - 1, ((i + v) % 3) + 1)]

\* Daily candles (00:00 UTC) of the days a..b.
DailyKlines(a, b, v) ==
    [i \in 1..(b - a + 1) |-> Bar((a + i - 1) * HoursPerDay, ((i + v) % 3) + 1)]

\* What the 1H request and the daily request may be answered with.
HourSeries == {HourKlines(first, n, v) : first \in {8, 9}, n \in 0..MaxBars, v \in 0..2}
DailySeries ==
    {DailyKlines(a, b, v) : a \in 0..MaxDays, b \in (-1)..MaxDays, v \in 0..2}

MaxOf(S) == CHOOSE x \in S : \A y \in S : y <= x
MinOf(S) == CHOOSE x \in S : \A y \in S : x <= y

RECURSIVE SumVolume(_)
SumVolume(batch) ==
    IF batch = <<>> THEN 0 ELSE batch[1].volume + SumVolume(SubSeq(batch, 2, Len(batch)))

\* format_kline of one batch of four.
BatchCandle(batch) ==
    [ time |-> batch[1].time,
      open |-> batch[1].open,
      high |-> MaxOf({batch[k].high : k \in 1..Len(batch)}),
      low |-> MinOf({batch[k].low : k \in 1..Len(batch)}),
      close |-> batch[Len(batch)].close,
      volume |-> SumVolume(batch) ]

\* The while loop of _fetch_and_aggregate_4h from index i (1-based) on.
RECURSIVE AggregateFrom(_, _)
AggregateFrom(hour_klines, i) ==
    IF i > Len(hour_klines) THEN <<>>
    ELSE LET last == IF i + BatchSize - 1 > Len(hour_klines)
                     THEN Len(hour_klines) ELSE i + BatchSize - 1
             batch == SubSeq(hour_klines, i, last)
         IN IF Len(batch) < BatchSize THEN <<>>
            ELSE <<BatchCandle(batch)>> \o AggregateFrom(hour_klines, i + BatchSize)

Aggregate4h(hour_klines, limit) ==
    IF hour_klines = <<>> THEN <<>> ELSE LastN(AggregateFrom(hour_klines, 1), limit)

\* datetime.fromtimestamp(ts) as local wall-clock hours, and its parts.
LocalTime(ts, tz) == ts + tz
DayOf(local) == local \div HoursPerDay
Weekday(local) == DayOf(local) % DaysPerWeek

\* int((dt - timedelta(days=dt.weekday())).timestamp()): the time of day of dt is kept.
WeekStart(ts, tz) == ts - Weekday(LocalTime(ts, tz)) * HoursPerDay
\* week_start.strftime('%Y-%W')
WeekKey(ts, tz) == DayOf(LocalTime(ts, tz)) \div DaysPerWeek

\* dt.strftime('%Y-%m') and int(dt.replace(day=1, hour=0, minute=0, second=0).timestamp())
MonthKey(ts, tz) == DayOf(LocalTime(ts, tz)) \div MonthDays
MonthStart(ts, tz) == MonthKey(ts, tz) * MonthDays * HoursPerDay - tz

KeyOf(timeframe, ts, tz) == IF timeframe = "1W" THEN WeekKey(ts, tz) ELSE MonthKey(ts, tz)
StartOf(timeframe, ts, tz) == IF timeframe = "1W" THEN WeekStart(ts, tz) ELSE MonthStart(ts, tz)

\* The loop of _aggregate_to_weekly / _aggregate_to_monthly over the whole list:
\* the finished candles, the key of the running bucket and the running candle
\* (a list of no or one candle).
RECURSIVE BucketLoop(_, _, _)
BucketLoop(timeframe, daily_klines, tz) ==
    IF daily_klines = <<>>
    THEN [klines |-> <<>>, current |-> NULL, data |-> <<>>]
    ELSE LET prev == BucketLoop(timeframe, SubSeq(daily_klines, 1, Len(daily_klines) - 1), tz)
             kline == daily_klines[Len(daily_klines)]
             key == KeyOf(timeframe, kline.time, tz)
         IN IF key # prev.current
            THEN [ klines |-> prev.klines \o prev.data,
                   current |-> key,
                   data |-> << [kline EXCEPT !.time = StartOf(timeframe, kline.time, tz)] >> ]
            ELSE LET d == prev.data[1]
                 IN [ klines |-> prev.klines,
                      current |-> prev.current,
                      data |-> << [ time |-> d.time,
                                    open |-> d.open,
                                    high |-> IF kline.high > d.high THEN kline.high ELSE d.high,
                                    low |-> IF kline.low < d.low THEN kline.low ELSE d.low,
                                    close |-> kline.close,
                                    volume |-> d.volume + kline.volume ] >> ]

\* _aggregate_to_weekly ("1W") and _aggregate_to_monthly ("1M"): the last
\* bucket is appended after the loop.
AggregateCalendar(timeframe, daily_klines, tz) ==
    LET s == BucketLoop(timeframe, daily_klines, tz)
    IN s.klines \o s.data

NoAgg ==
    [ timeframe |-> "", tz |-> 0, limit |-> 0, source |-> <<>>, done |-> FALSE,
      out |-> <<>>, all |-> <<>> ]

\* A call about to be made: the timeframe asked for, the limit, the server's
\* timezone and the candles the provider will answer with.
PendingAggregations ==
    { [NoAgg EXCEPT !.timeframe = "4H", !.limit = limit, !.source = hour_klines] :
        limit \in Limits, hour_klines \in HourSeries }
    \cup
    { [NoAgg EXCEPT !.timeframe = timeframe, !.tz = tz, !.limit = limit, !.source = data] :
        timeframe \in {"1W", "1M"}, tz \in TimezoneOffsets, limit \in Limits,
        data \in DailySeries }

\* _fetch_and_aggregate_4h with the 1H candles the provider answered.
FetchAndAggregate4h ==
    /\ agg.timeframe = "4H" /\ ~agg.done
    /\ agg' = [agg EXCEPT !.done = TRUE,
                          !.out = Aggregate4h(agg.source, agg.limit),
                          !.all = AggregateFrom(agg.source, 1)]
    /\ UNCHANGED nonAggVars

\* ForexDataSource.get_kline for 1W or 1M with the daily candles Tiingo answered:
\* sort, aggregate, keep the last original_limit.
ForexGetKline ==
    /\ agg.timeframe \in {"1W", "1M"} /\ ~agg.done
    /\ LET max_limit == IF agg.timeframe = "1W" THEN MaxWeeklyLimit ELSE MaxMonthlyLimit
           original_limit == IF agg.limit < max_limit THEN agg.limit ELSE max_limit
           klines == AggregateCalendar(agg.timeframe, SortByTime(agg.source), agg.tz)
       IN agg' = [agg EXCEPT !.done = TRUE,
                             !.source = SortByTime(agg.source),
                             !.out = LastN(klines, original_limit),
                             !.all = klines]
    /\ UNCHANGED nonAggVars

(***************************************************************************)
(* Webhook delivery: SignalNotifier._notify_webhook (signal_notifier.py).  *)
(* A header value is a tuple of strings: <<v>> for the plain string v, the *)
(* empty tuple for a header that is not set, and for a signature the tuple *)
(* of what went into HMAC-SHA256.                                          *)
(***************************************************************************)
BackoffSeconds == 1

WebhookUrls == {"", "ftp://hook", "https://hook"}
WebhookPayloads == {"none", "empty", "signal", "unserializable"}
WebhookTokens == {"", "tok"}
SecretOverrides == {"", " ", "s3cret"}
EnvSecrets == {"", "envsecret"}
WebhookClock == {0, 8}

\* HTTP status of a response; NULL stands for requests.post raising.
Responses == {NULL, 200, 204, 404, 429, 500, 501, 503}
RetryStatuses == {429, 500, 502, 503, 504}

HeaderNames ==
    { "Content-Type", "User-Agent", "Authorization", "X-QD-Timestamp", "X-QD-Signature",
      "x-qd-signature", "X-Trace" }

\* headers_override as the caller may give it: the keys it sets with their values.
NoOverride == [h \in {} |-> ""]
HeaderOverrides ==
    { NoOverride,
      [h \in {"X-QD-Timestamp", "X-QD-Signature"} |-> "forged"],
      [h \in {"x-qd-signature", "Authorization"} |-> "other"],
      [h \in {"X-Trace"} |-> "t1"] }

\* str(int(time.time())) for the clock values of the model.
Str(n) ==
    CASE n = 0 -> "0"
      [] n = 1 -> "1"
      [] n = 8 -> "8"
      [] n = 9 -> "9"
      [] OTHER -> "?"

\* json.dumps(payload or {}, ensure_ascii=False, separators=(",", ":")).encode("utf-8")
Serializable(payload) == payload # "unserializable"
JsonDumps(payload) ==
    CASE payload = "none" -> "{}"
      [] payload = "empty" -> "{}"
      [] OTHER -> "{\"event\":\"signal\"}"

\* hmac.new(secret, (ts + ".") + body, sha256).hexdigest(): told apart by its inputs.
HmacSha256(secret, ts, body) == <<"hmac-sha256", secret, ts, ".", body>>

BaseHeaders ==
    [h \in HeaderNames |->
        CASE h = "Content-Type" -> <<"application/json">>
          [] h = "User-Agent" -> <<"QuantDinger/1.0 (+https://www.quantdinger.com)">>
          [] OTHER -> <<>>]

WithOverrides(headers, wh_dict) ==
    [h \in HeaderNames |-> IF h \in DOMAIN wh_dict THEN <<wh_dict[h]>> ELSE headers[h]]

WithToken(headers, token_override) ==
    IF Strip(token_override) # "" /\ headers["Authorization"] = <<>>
    THEN [headers EXCEPT !["Authorization"] = <<"Bearer " \o Strip(token_override)>>]
    ELSE headers

SigningSecret(signing_secret_override, env) ==
    IF Strip(signing_secret_override) # "" THEN Strip(signing_secret_override) ELSE Strip(env)

\* Mutant: the caller's headers are applied after the signature headers.
SignedHeadersOverridable(headers, wh_dict, secret, ts, body) ==
    WithOverrides([headers EXCEPT !["X-QD-Timestamp"] = <<ts>>,
                                  !["X-QD-Signature"] = HmacSha256(secret, ts, body)], wh_dict)

\* The headers of a signed delivery; wh_dict has already been applied to `headers`.
SignedHeaders(headers, wh_dict, secret, ts, body) ==
    [headers EXCEPT !["X-QD-Timestamp"] = <<ts>>,
                    !["X-QD-Signature"] = HmacSha256(secret, ts, body)]

NoWebhook ==
    [ pc |-> "idle", url |-> "", payload |-> "none", overrides |-> NoOverride,
      secret |-> "", started |-> 0, headers |-> BaseHeaders, body |-> "",
      attempts |-> <<>>, ok |-> FALSE, err |-> "" ]

\* What _post_once puts on the wire.  A signed delivery sends the bytes that
\* were signed; an unsigned one has requests serialize the payload (json=).
Request(w) ==
    [ body |-> IF w.secret # "" THEN w.body ELSE JsonDumps(w.payload),
      headers |-> w.headers ]

\* _notify_webhook up to the first _post_once.
NotifyWebhook(url, payload, headers_override, token_override, signing_secret_override, env) ==
    /\ wh.pc = "idle"
    /\ LET secret == SigningSecret(signing_secret_override, env)
           headers == WithToken(WithOverrides(BaseHeaders, headers_override), token_override)
           ts == Str(now)
           w == [NoWebhook EXCEPT !.url = url, !.payload = payload,
                                  !.overrides = headers_override, !.secret = secret,
                                  !.started = now, !.headers = headers]
       IN wh' =
            IF url = "" THEN [w EXCEPT !.pc = "done", !.err = "missing_webhook_url"]
            ELSE IF url = "ftp://hook" THEN [w EXCEPT !.pc = "done", !.err = "invalid_webhook_url"]
            ELSE IF secret # "" /\ ~Serializable(payload)
                 THEN [w EXCEPT !.pc = "done", !.err = "webhook_signing_failed"]
            ELSE IF secret # ""
                 THEN [w EXCEPT !.pc = "post1", !.body = JsonDumps(payload),
                                !.headers = SignedHeaders(headers, headers_override, secret,
                                                          ts, JsonDumps(payload))]
            ELSE IF ~Serializable(payload)
                 THEN [w EXCEPT !.pc = "done", !.err = "exception"]
            ELSE [w EXCEPT !.pc = "post1"]
    /\ UNCHANGED now
    /\ UNCHANGED nonWebhookVars

Attempt(w, status) ==
    [ time |-> now, body |-> Request(w).body, headers |-> Request(w).headers, status |-> status ]

IsSuccess(status) == status # NULL /\ 200 <= status /\ status < 300

\* The first POST has been answered (or has raised); on a retry status the
\* call sleeps BackoffSeconds before the second POST.
FirstResponse(status) ==
    /\ wh.pc = "post1"
    /\ LET w == [wh EXCEPT !.attempts = Append(@, Attempt(wh, status))]
       IN IF status = NULL
          THEN wh' = [w EXCEPT !.pc = "done", !.err = "exception"] /\ UNCHANGED now
          ELSE IF IsSuccess(status)
          THEN wh' = [w EXCEPT !.pc = "done", !.ok = TRUE] /\ UNCHANGED now
          ELSE IF status \in RetryStatuses
          THEN wh' = [w EXCEPT !.pc = "post2"] /\ now' = now + BackoffSeconds
          ELSE wh' = [w EXCEPT !.pc = "done", !.err = "http"] /\ UNCHANGED now
    /\ UNCHANGED nonWebhookVars

\* The second POST has been answered (or has raised).
SecondResponse(status) ==
    /\ wh.pc = "post2"
    /\ LET w == [wh EXCEPT !.attempts = Append(@, Attempt(wh, status))]
       IN wh' = IF status = NULL THEN [w EXCEPT !.pc = "done", !.err = "exception"]
                ELSE IF IsSuccess(status) THEN [w EXCEPT !.pc = "done", !.ok = TRUE]
                ELSE [w EXCEPT !.pc = "done", !.err = "http"]
    /\ UNCHANGED now
    /\ UNCHANGED nonWebhookVars

(***************************************************************************)
(* Discord delivery: SignalNotifier._notify_discord (signal_notifier.py).  *)
(* Sleeps and retry_after are in tenths of a second.                       *)
(***************************************************************************)
MinRetrySleep == 5
MaxRetrySleep == 30
DefaultRetrySleep == 10

\* resp.json().get("retry_after") of a 429 answer: NULL when the body is not
\* JSON or the value is not a number, 0 when the key is absent, null or zero.
RetryAfters == {NULL, -10, 0, 2, 10, 25, 50}

\* Mutant: the server's value is slept as it is.
RetrySleepUnclamped(x) == IF x = NULL \/ x = 0 THEN DefaultRetrySleep ELSE x

\* float(x or 1.0), min(max(retry_after, 0.5), 3.0); time.sleep(1.0) when that raised.
RetrySleep(x) ==
    IF x = NULL THEN DefaultRetrySleep
    ELSE LET retry_after == IF x = 0 THEN DefaultRetrySleep ELSE x
             low == IF retry_after > MinRetrySleep THEN retry_after ELSE MinRetrySleep
         IN IF low < MaxRetrySleep THEN low ELSE MaxRetrySleep

NoDiscord ==
    [ pc |-> "idle", url |-> "", posts |-> <<>>, slept |-> <<>>, ok |-> FALSE,
      err |-> "", resp |-> NULL ]

\* One _post: what was posted and what came back (NULL: requests.post raised).
Post(kind, status) == [kind |-> kind, status |-> status]

\* _notify_discord up to the first _post.
NotifyDiscord(url) ==
    /\ dc.pc \in {"idle", "done"}
    /\ dc' = IF url = "" THEN [NoDiscord EXCEPT !.pc = "done", !.err = "missing_discord_webhook_url"]
             ELSE IF url = "ftp://hook"
             THEN [NoDiscord EXCEPT !.pc = "done", !.url = url, !.err = "invalid_discord_webhook_url"]
             ELSE [NoDiscord EXCEPT !.pc = "embed", !.url = url]
    /\ UNCHANGED nonDiscordVars

\* The embed post has been answered (or has raised); on 429 the call sleeps.
EmbedResponse(status, retry_after) ==
    /\ dc.pc = "embed"
    /\ LET c == [dc EXCEPT !.posts = Append(@, Post("embed", status))]
       IN dc' = IF status = NULL THEN [c EXCEPT !.pc = "done", !.err = "exception"]
                ELSE IF IsSuccess(status) THEN [c EXCEPT !.pc = "done", !.ok = TRUE]
                ELSE IF status = 429
                THEN [c EXCEPT !.pc = "retry", !.resp = status,
                               !.slept = Append(@, RetrySleep(retry_after))]
                ELSE [c EXCEPT !.pc = "fallback", !.resp = status]
    /\ UNCHANGED nonDiscordVars

\* The second embed post has been answered (or has raised).
RetryResponse(status) ==
    /\ dc.pc = "retry"
    /\ LET c == [dc EXCEPT !.posts = Append(@, Post("embed", status))]
       IN dc' = IF status = NULL THEN [c EXCEPT !.pc = "done", !.err = "exception"]
                ELSE IF IsSuccess(status) THEN [c EXCEPT !.pc = "done", !.ok = TRUE]
                ELSE [c EXCEPT !.pc = "fallback", !.resp = status]
    /\ UNCHANGED nonDiscordVars

\* The plain-text post has been answered (or has raised: the exception is
\* swallowed and the embed's error is returned).
FallbackResponse(status) ==
    /\ dc.pc = "fallback"
    /\ LET c == [dc EXCEPT !.posts = Append(@, Post("text", status))]
       IN dc' = IF IsSuccess(status) THEN [c EXCEPT !.pc = "done", !.ok = TRUE]
                ELSE [c EXCEPT !.pc = "done", !.err = "http"]
    /\ UNCHANGED nonDiscordVars

(***************************************************************************)
(* The senders with credentials: SignalNotifier._notify_telegram,          *)
(* _notify_email and _notify_phone (signal_notifier.py), with the telegram *)
(* branch of notify_signal that picks the bot token.                       *)
(***************************************************************************)
\* Values of targets.telegram_bot_token and cfg.telegram_bot_token, of the
\* environment's TELEGRAM_BOT_TOKEN, and of targets.telegram.
UserTokens == {"", " ", "usertok"}
EnvTokens == {"", "envtok"}
ChatIds == {"", "42"}

\* targets.email; SMTP_HOST, SMTP_FROM and SMTP_USER of the environment.
EmailTargets == {"", "a@b"}
SmtpHosts == {"", "smtp.host"}
SmtpFroms == {"", "from@x"}
SmtpUsers == {"", "user"}

\* targets.phone; TWILIO_ACCOUNT_SID, TWILIO_AUTH_TOKEN, TWILIO_FROM_NUMBER.
PhoneTargets == {"", "+1555"}
TwilioValues == {"", "tw"}

\* Python's `a or b` on strings.
Or(a, b) == IF a # "" THEN a ELSE b

\* Mutant: the bot token of the environment is used when the user has none.
TelegramTokenWithDefault(targets_token, cfg_token, env_token) ==
    Or(Strip(Or(targets_token, cfg_token)), Strip(env_token))

\* notify_signal, telegram branch: str(targets token or cfg token or "").strip(),
\* stripped again by _notify_telegram.  The environment is not read.
TelegramToken(targets_token, cfg_token, env_token) ==
    Strip(Strip(Or(targets_token, cfg_token)))

NoSender ==
    [ pc |-> "idle", channel |-> "", target |-> "", user |-> <<>>, shared |-> <<>>,
      requests |-> <<>>, ok |-> FALSE, err |-> "" ]

\* A transport request: the channel, whom it is for and what it authenticates with.
SenderRequest(channel, to, auth) == [channel |-> channel, to |-> to, auth |-> auth]

Refused(s, err) == [s EXCEPT !.pc = "done", !.err = err]
Sending(s, to, auth) ==
    [s EXCEPT !.pc = "sending", !.requests = Append(@, SenderRequest(s.channel, to, auth))]

\* The telegram branch of notify_signal and _notify_telegram up to requests.post.
NotifyTelegram(chat_id, targets_token, cfg_token, env_token) ==
    /\ snd.pc \in {"idle", "done"}
    /\ LET token == TelegramToken(targets_token, cfg_token, env_token)
           s == [NoSender EXCEPT !.channel = "telegram", !.target = Strip(chat_id),
                                 !.user = <<targets_token, cfg_token>>,
                                 !.shared = <<env_token>>]
       IN snd' = IF token = "" THEN Refused(s, "missing_telegram_bot_token")
                 ELSE IF Strip(chat_id) = "" THEN Refused(s, "missing_telegram_chat_id")
                 ELSE Sending(s, Strip(chat_id), <<token>>)
    /\ UNCHANGED nonSenderVars

\* _notify_email up to the SMTP session; smtp_from is SMTP_FROM or SMTP_USER.
NotifyEmail(to_email, smtp_host, env_from, smtp_user) ==
    /\ snd.pc \in {"idle", "done"}
    /\ LET smtp_from == Strip(Or(env_from, smtp_user))
           s == [NoSender EXCEPT !.channel = "email", !.target = Strip(to_email),
                                 !.shared = <<Strip(smtp_host), smtp_from>>]
       IN snd' = IF Strip(to_email) = "" THEN Refused(s, "missing_email_target")
                 ELSE IF Strip(smtp_host) = "" THEN Refused(s, "missing_SMTP_HOST")
                 ELSE IF smtp_from = "" THEN Refused(s, "missing_SMTP_FROM")
                 ELSE Sending(s, Strip(to_email), <<Strip(smtp_host), smtp_from>>)
    /\ UNCHANGED nonSenderVars

\* _notify_phone up to requests.post.
NotifyPhone(to_phone, twilio_sid, twilio_token, twilio_from) ==
    /\ snd.pc \in {"idle", "done"}
    /\ LET s == [NoSender EXCEPT !.channel = "phone", !.target = Strip(to_phone),
                                 !.shared = <<twilio_sid, twilio_token, twilio_from>>]
       IN snd' = IF Strip(to_phone) = "" THEN Refused(s, "missing_phone_target")
                 ELSE IF twilio_sid = "" \/ twilio_token = "" \/ twilio_from = ""
                 THEN Refused(s, "missing_TWILIO_config")
                 ELSE Sending(s, Strip(to_phone), <<twilio_sid, twilio_token, twilio_from>>)
    /\ UNCHANGED nonSenderVars

\* The transport has answered (a status, for email 200 when send_message
\* returned) or has raised (NULL).
SenderResponse(status) ==
    /\ snd.pc = "sending"
    /\ snd' = IF status = NULL THEN [snd EXCEPT !.pc = "done", !.err = "exception"]
              ELSE IF IsSuccess(status) THEN [snd EXCEPT !.pc = "done", !.ok = TRUE]
              ELSE [snd EXCEPT !.pc = "done", !.err = "http"]
    /\ UNCHANGED nonSenderVars

(***************************************************************************)
(* The scheduler thread: _monitor_loop, stop_monitor_service               *)
(* (portfolio_monitor.py).  The monitor table here is the loop's view of   *)
(* qd_position_monitors: for every id whether the row is active, when it   *)
(* is due, and what a run of it does to the row.                           *)
(***************************************************************************)
BatchLimit == 10
SleepSeconds == 30
LoopStart == 100
RunInterval == 60

ScheduledIds == 1..MaxMonitors

\* What run_single_monitor does to the row: "updated" writes next_run_at =
\* NOW() + interval, "kept" returns before the UPDATE (no positions, monitor
\* not found), "raised" leaves it with an exception.
RunEffects == <<"updated", "kept", "raised">>

MonitorRow(active, next_run_at, effect) ==
    [is_active |-> active, next_run_at |-> next_run_at, effect |-> effect]

\* Tables the loop may find: more due rows than the batch holds, in an order
\* that differs from the id order; rows with equal next_run_at, some
\* inactive; rows that come due while the loop sleeps; three rows only; as
\* many rows as the batch holds whose run returns before its UPDATE (their
\* positions are gone), and a row due after them.
SchedulerTables ==
    { [i \in ScheduledIds |-> MonitorRow(TRUE, 50 - i, RunEffects[(i % 3) + 1])],
      [i \in ScheduledIds |-> MonitorRow(i % 2 = 1, 40 + 10 * (i % 3), RunEffects[(i % 2) + 1])],
      [i \in ScheduledIds |-> MonitorRow(i % 4 # 0, LoopStart + SleepSeconds * (i % 3) - 20 * (i % 2),
                                         "updated")],
      [i \in ScheduledIds |-> MonitorRow(i <= 3, IF i = 2 THEN NULL ELSE 90 + i, "kept")],
      [i \in ScheduledIds |-> MonitorRow(TRUE, 60 + i, IF i <= BatchLimit THEN "kept" ELSE "updated")] }

NoLoop ==
    [ pc |-> "cond", stop |-> FALSE, iteration |-> 0, table |-> <<>>, desc |-> FALSE,
      alert_rows |-> 0, alert_idx |-> 0, rows |-> <<>>, idx |-> 0,
      started |-> <<>>, ran |-> <<>>, queried_at |-> NULL, snapshot |-> <<>>,
      stopped_in |-> "", stopped_started |-> NULL, slept |-> <<>>,
      absorbed |-> [alert |-> 0, monitor |-> 0],
      passed_over |-> [m \in ScheduledIds |-> 0] ]

\* WHERE is_active = 1 AND next_run_at <= NOW()
Due(table, t) ==
    {i \in DOMAIN table : table[i].is_active /\ table[i].next_run_at # NULL
                          /\ table[i].next_run_at <= t}

\* ORDER BY next_run_at ASC; rows with equal next_run_at come in an order the
\* database chooses (here by id, ascending or descending).
Precedes(table, desc, i, j) ==
    \/ table[i].next_run_at < table[j].next_run_at
    \/ table[i].next_run_at = table[j].next_run_at /\ (IF desc THEN i > j ELSE i < j)

\* Mutant: no LIMIT.
DueRowsUnlimited(table, t, desc) ==
    LET due == Due(table, t)
        rank(i) == Cardinality({j \in due : Precedes(table, desc, j, i)}) + 1
    IN [k \in 1..Cardinality(due) |-> CHOOSE i \in due : rank(i) = k]

\* The rows of the SELECT with ORDER BY next_run_at ASC LIMIT 10.
DueRows(table, t, desc) ==
    LET due == Due(table, t)
        rank(i) == Cardinality({j \in due : Precedes(table, desc, j, i)}) + 1
        n == IF Cardinality(due) > BatchLimit THEN BatchLimit ELSE Cardinality(due)
    IN [k \in 1..n |-> CHOOSE i \in due : rank(i) = k]

\* Mutant: the loop condition does not look at the stop event.
LoopExitsNever(stop) == FALSE

\* while not _stop_event.is_set()
LoopExits(stop) == stop

\* The loop condition is evaluated: the loop ends, or an iteration begins
\* with the call of _check_position_alerts and its SELECT (rows fetched, or
\* none when the SELECT fails).
LoopCondition ==
    /\ loop.pc = "cond"
    /\ LoopExits(loop.stop) \/ loop.iteration < MaxIterations
    /\ \E fetched \in 0..MaxAlertRows :
          loop' = IF LoopExits(loop.stop) THEN [loop EXCEPT !.pc = "exited"]
                  ELSE [loop EXCEPT !.pc = "alerts", !.iteration = @ + 1,
                                    !.alert_rows = fetched, !.alert_idx = 0,
                                    !.rows = <<>>, !.idx = 0, !.started = <<>>, !.ran = <<>>,
                                    !.queried_at = NULL, !.snapshot = <<>>]
    /\ UNCHANGED now
    /\ UNCHANGED nonLoopVars

\* One row of the alert pass is handled: its code ends, or raises into the
\* handler of the row (portfolio_monitor.py lines 1111-1112), which logs.
\* absorbed.alert is history: the first iteration in which a row raised.
CheckAlertRow ==
    /\ loop.pc = "alerts"
    /\ loop.alert_idx < loop.alert_rows
    /\ \E raised \in BOOLEAN :
          loop' = [loop EXCEPT !.alert_idx = @ + 1,
                     !.absorbed.alert = IF raised /\ @ = 0 THEN loop.iteration ELSE @]
    /\ UNCHANGED now
    /\ UNCHANGED nonLoopVars

\* passed_over is history: for every monitor, in how many queries in a row
\* it was active and due but left out of the batch.
PassedOver(l, rows) ==
    [m \in ScheduledIds |->
        IF m \in Due(l.table, now) /\ \A k \in 1..Len(rows) : rows[k] # m
        THEN l.passed_over[m] + 1 ELSE 0]

\* _check_position_alerts has returned; the due monitors are selected.  When
\* the SELECT raises, the handler of the iteration logs and the loop sleeps.
SelectDue ==
    /\ loop.pc = "alerts"
    /\ loop.alert_idx = loop.alert_rows
    /\ \E failed \in BOOLEAN, desc \in BOOLEAN :
          loop' = IF failed THEN [loop EXCEPT !.pc = "sleep"]
                  ELSE [loop EXCEPT !.pc = "batch", !.desc = desc,
                                    !.rows = DueRows(loop.table, now, desc), !.idx = 1,
                                    !.queried_at = now, !.snapshot = loop.table,
                                    !.passed_over =
                                        PassedOver(loop, DueRows(loop.table, now, desc))]
    /\ UNCHANGED now
    /\ UNCHANGED nonLoopVars

\* Mutant: the batch is run whatever the stop event says.
BreaksOutNever(stop) == FALSE

\* if _stop_event.is_set(): break
BreaksOut(stop) == stop

\* for row in rows: the stop test, then run_single_monitor(...) is called.
BeginRun ==
    /\ loop.pc = "batch"
    /\ loop' = IF loop.idx > Len(loop.rows) \/ BreaksOut(loop.stop)
               THEN [loop EXCEPT !.pc = "sleep"]
               ELSE [loop EXCEPT !.pc = "running", !.started = Append(@, loop.rows[loop.idx])]
    /\ UNCHANGED now
    /\ UNCHANGED nonLoopVars

\* Mutant: no handler around the call; the exception of a run reaches the
\* handler of the iteration.
AfterRunEscaping(l, m) ==
    IF l.table[m].effect = "raised"
    THEN [l EXCEPT !.pc = "sleep", !.ran = Append(@, m),
                   !.absorbed.monitor = IF @ = 0 THEN l.iteration ELSE @]
    ELSE [l EXCEPT !.pc = "batch", !.idx = @ + 1, !.ran = Append(@, m),
                   !.table = IF l.table[m].effect = "updated"
                             THEN [@ EXCEPT ![m].next_run_at = now + RunInterval]
                             ELSE @]

\* The call of run_single_monitor for monitor m is over: it returned, or it
\* raised and the handler of lines 1230-1231 logged.  absorbed.monitor is
\* history: the first iteration in which a run raised.
AfterRun(l, m) ==
    [l EXCEPT !.pc = "batch", !.idx = @ + 1, !.ran = Append(@, m),
              !.table = IF l.table[m].effect = "updated"
                        THEN [@ EXCEPT ![m].next_run_at = now + RunInterval]
                        ELSE @,
              !.absorbed.monitor = IF l.table[m].effect = "raised" /\ @ = 0
                                   THEN l.iteration ELSE @]

\* run_single_monitor returns or raises (the loop logs the exception).
EndRun ==
    /\ loop.pc = "running"
    /\ loop' = AfterRun(loop, loop.rows[loop.idx])
    /\ UNCHANGED now
    /\ UNCHANGED nonLoopVars

\* _stop_event.wait(30): returns at once when the event is set, after 30 s
\* otherwise.
Sleep ==
    /\ loop.pc = "sleep"
    /\ loop' = [loop EXCEPT !.pc = "cond",
                            !.slept = Append(@, IF loop.stop THEN 0 ELSE SleepSeconds)]
    /\ now' = IF loop.stop THEN now ELSE now + SleepSeconds
    /\ UNCHANGED nonLoopVars

\* stop_monitor_service: _stop_event.set()
StopMonitorService ==
    /\ ~loop.stop
    /\ loop.pc # "exited"
    /\ loop' = [loop EXCEPT !.stop = TRUE, !.stopped_in = loop.pc,
                            !.stopped_started = Len(loop.started)]
    /\ UNCHANGED now
    /\ UNCHANGED nonLoopVars

(***************************************************************************)
(* The rate limiter of _get_single_price (routes/portfolio.py): the pool's *)
(* workers, _request_lock and _last_request_time.  The clock counts tenths *)
(* of a second.                                                            *)
(***************************************************************************)
RequestInterval == 3
PoolWorkers == 1..3
ClockStart == 3
LimitedMarkets == {"Crypto", "USStock"}

NoWorker == [pc |-> "idle", market |-> "", now |-> 0, last_time |-> 0, tasks |-> 0]

NoLimiter ==
    [ clock |-> ClockStart, lock |-> 0, last |-> [m \in LimitedMarkets |-> 0],
      w |-> [k \in PoolWorkers |-> NoWorker], passes |-> <<>> ]

\* Mutant: the lock admits a worker while another holds it.
LockFreeAlways(holder) == TRUE

\* with _request_lock: the lock is free.
LockFree(holder) == holder = 0

\* The pool hands _get_single_price(market, symbol) to a worker.
Submit(k, market) ==
    /\ rl.w[k].pc \in {"idle", "lookup"}
    /\ rl.w[k].tasks < MaxTasks
    /\ rl' = [rl EXCEPT !.w[k] = [NoWorker EXCEPT !.pc = "acquire", !.market = market,
                                                  !.tasks = rl.w[k].tasks + 1]]
    /\ UNCHANGED nonLimiterVars

\* Mutant: the lock is given back before the sleep.
AcquireAndReadThenRelease(k) ==
    /\ rl.w[k].pc = "acquire"
    /\ LockFree(rl.lock)
    /\ rl' = [rl EXCEPT !.w[k].pc = "wait",
                        !.w[k].now = rl.clock,
                        !.w[k].last_time = rl.last[rl.w[k].market]]
    /\ UNCHANGED nonLimiterVars

\* The worker takes the lock and reads the clock and the market's last call.
AcquireAndRead(k) ==
    /\ rl.w[k].pc = "acquire"
    /\ LockFree(rl.lock)
    /\ rl' = [rl EXCEPT !.lock = k,
                        !.w[k].pc = "wait",
                        !.w[k].now = rl.clock,
                        !.w[k].last_time = rl.last[rl.w[k].market]]
    /\ UNCHANGED nonLimiterVars

\* wait_time = REQUEST_INTERVAL - (now - last_time); time.sleep(wait_time) when
\* positive; then _last_request_time[market] = time.time() and the lock is released.
WriteAndRelease(k) ==
    /\ rl.w[k].pc = "wait"
    /\ LET wait_time == RequestInterval - (rl.w[k].now - rl.w[k].last_time)
       IN /\ wait_time > 0 => rl.clock >= rl.w[k].now + wait_time
          /\ rl' = [rl EXCEPT !.lock = 0,
                              !.w[k].pc = "lookup",
                              !.last[rl.w[k].market] = rl.clock,
                              !.passes = Append(@, [market |-> rl.w[k].market, worker |-> k,
                                                    now |-> rl.w[k].now, time |-> rl.clock,
                                                    last_time |-> rl.w[k].last_time])]
    /\ UNCHANGED nonLimiterVars

\* A tenth of a second passes.
TickLimiter ==
    /\ rl.clock < MaxClock
    /\ rl' = [rl EXCEPT !.clock = @ + 1]
    /\ UNCHANGED nonLimiterVars

(***************************************************************************)
(* The price fan-out of get_positions and get_portfolio_summary            *)
(* (routes/portfolio.py).  Times are seconds from the moment the request   *)
(* starts to collect; prices are in hundredths.                            *)
(***************************************************************************)
ResultTimeout == 10

\* The market:symbol keys of the user's rows, in the order of the SELECT; ""
\* is a row without market or symbol.
PositionRows == { <<"A">>, <<"A", "B">>, <<"A", "B", "A">>, <<"B", "", "A">> }

\* What becomes of a submitted lookup: when the future is done and with what
\* (a price, the zero-price dict _get_single_price returns for an exception
\* it caught, or an exception of the future itself).
LookupOutcomes ==
    [done_at : {2, 12, 25}, result : {"price", "zero", "raises"}]

PriceOf(key) == IF key = "A" THEN 10000 ELSE IF key = "B" THEN 2550 ELSE 0

\* `if key not in price_futures`: the keys in the order they are first met.
\* get_positions submits nothing for a row without market or symbol
\* (`if market and symbol`); get_portfolio_summary has no such test.
RECURSIVE DistinctKeys(_, _)
DistinctKeys(route, rows) ==
    IF rows = <<>> THEN <<>>
    ELSE LET before == DistinctKeys(route, SubSeq(rows, 1, Len(rows) - 1))
             key == rows[Len(rows)]
         IN IF (key = "" /\ route = "positions") \/ \E i \in 1..Len(before) : before[i] = key
            THEN before ELSE Append(before, key)

NoRequest ==
    [ pc |-> "idle", route |-> "", rows |-> <<>>, futures |-> <<>>, outcomes |-> <<>>,
      idx |-> 0, clock |-> 0, price_map |-> {}, missed |-> {}, code |-> NULL,
      current_price |-> <<>> ]

\* The rows are read and one lookup is submitted for every distinct key.
SubmitLookups(route, rows) ==
    /\ pr.pc \in {"idle", "done"}
    /\ pr' = [NoRequest EXCEPT !.pc = "collect", !.route = route, !.rows = rows,
                               !.futures = DistinctKeys(route, rows), !.idx = 1]
    /\ UNCHANGED nonRequestVars

\* future.result(timeout=10) called at pr.clock on a future done at o.done_at.
TimesOut(clock, o) == o.done_at > clock + ResultTimeout

\* Mutant: the exception of future.result leaves the request.
AfterResultAborting(r, key, o) ==
    IF TimesOut(r.clock, o) \/ o.result = "raises"
    THEN [r EXCEPT !.pc = "done", !.code = 0, !.missed = @ \cup {key},
                   !.outcomes = Append(@, o)]
    ELSE [r EXCEPT !.idx = @ + 1, !.outcomes = Append(@, o),
                   !.clock = IF o.done_at > @ THEN o.done_at ELSE @,
                   !.price_map = @ \cup {<<key, IF o.result = "price" THEN PriceOf(key) ELSE 0>>}]

\* One round of `for key, future in price_futures.items()`: the result goes
\* into price_map, a timeout or an exception is passed over.
AfterResult(r, key, o) ==
    IF TimesOut(r.clock, o)
    THEN [r EXCEPT !.idx = @ + 1, !.outcomes = Append(@, o), !.missed = @ \cup {key},
                   !.clock = @ + ResultTimeout]
    ELSE IF o.result = "raises"
    THEN [r EXCEPT !.idx = @ + 1, !.outcomes = Append(@, o), !.missed = @ \cup {key},
                   !.clock = IF o.done_at > @ THEN o.done_at ELSE @]
    ELSE [r EXCEPT !.idx = @ + 1, !.outcomes = Append(@, o),
                   !.clock = IF o.done_at > @ THEN o.done_at ELSE @,
                   !.price_map = @ \cup {<<key, IF o.result = "price" THEN PriceOf(key) ELSE 0>>}]

CollectResult ==
    /\ pr.pc = "collect"
    /\ pr.idx <= Len(pr.futures)
    /\ \E o \in LookupOutcomes : pr' = AfterResult(pr, pr.futures[pr.idx], o)
    /\ UNCHANGED nonRequestVars

\* float(price_map.get(key, {}).get('price') or 0)
CurrentPrice(price_map, key) ==
    IF \E e \in price_map : e[1] = key
    THEN (CHOOSE e \in price_map : e[1] = key)[2]
    ELSE 0

\* The values are computed for every row and the request answers code 1.
Respond ==
    /\ pr.pc = "collect"
    /\ pr.idx > Len(pr.futures)
    /\ pr' = [pr EXCEPT !.pc = "done", !.code = 1,
                        !.current_price = [i \in 1..Len(pr.rows) |->
                                              CurrentPrice(pr.price_map, pr.rows[i])]]
    /\ UNCHANGED nonRequestVars

(***************************************************************************)
(* The AI analysis of one monitor run: _run_ai_analysis and the part of    *)
(* _build_html_report that reads the entries (portfolio_monitor.py).  The  *)
(* analysis engine is outside the program: AnalysisService().analyze may   *)
(* return a report, return a report that names an error, return something  *)
(* that is no dict, or raise.  A value that may be absent is a tuple: <<>>  *)
(* for None or a missing key, <<v>> for the value v.                       *)
(***************************************************************************)
AnalysedPositions ==
    { [market |-> "Crypto", symbol |-> "BTC"], [market |-> "USStock", symbol |-> "AAPL"],
      [market |-> "", symbol |-> "X"], [market |-> "Forex", symbol |-> ""] }

\* The lists run_single_monitor may pass: it returns before the call when
\* there is no position.
PositionLists ==
    { <<a>> : a \in AnalysedPositions } \cup
    { <<a, b>> : a, b \in AnalysedPositions } \cup
    { <<a, b, c>> : a, b, c \in AnalysedPositions }

\* str(e) of the exceptions the engine raises; TimeoutError() has the empty message.
ExceptionMessages == {"", "boom"}
NoneHasNoGet == "'NoneType' object has no attribute 'get'"

AnalyzeOutcomes ==
    { [kind |-> "report", decision |-> d, error |-> <<>>, message |-> ""] : d \in {"BUY", "HOLD"} }
    \cup { [kind |-> "report", decision |-> "HOLD", error |-> <<"no data">>, message |-> ""] }
    \cup { [kind |-> "none", decision |-> "", error |-> <<>>, message |-> ""] }
    \cup { [kind |-> "raises", decision |-> "", error |-> <<>>, message |-> m] :
             m \in ExceptionMessages }

\* Python truthiness of p.get('error').
HasError(error) == error # <<>> /\ error # <<"">>

\* `if not market or not symbol: continue`
Analysable(pos) == pos.market # "" /\ pos.symbol # ""

NoAnalysis ==
    [ pc |-> "idle", positions |-> <<>>, idx |-> 0, position_analyses |-> <<>>,
      handled |-> <<>>, rendered |-> <<>>, success |-> FALSE, position_count |-> 0,
      analyzed_count |-> 0 ]

\* The entry the try block appends (lines 195-217).
AnalysisEntry(pos, o) ==
    [ market |-> pos.market, symbol |-> pos.symbol, final_decision |-> <<o.decision>>,
      error |-> o.error ]

\* The entry the except block appends (lines 220-227): error is str(e).
ErrorEntry(pos, message) ==
    [ market |-> pos.market, symbol |-> pos.symbol, final_decision |-> <<>>,
      error |-> <<message>> ]

\* One turn of the for loop for a position with a market and a symbol.
\* Returning None makes analysis_result.get raise inside the try.
AfterAnalyze(a, pos, o) ==
    IF o.kind = "report"
    THEN [a EXCEPT !.position_analyses = Append(@, AnalysisEntry(pos, o)),
                   !.handled = Append(@, FALSE)]
    ELSE [a EXCEPT !.position_analyses =
                      Append(@, ErrorEntry(pos, IF o.kind = "none" THEN NoneHasNoGet
                                                ELSE o.message)),
                   !.handled = Append(@, TRUE)]

\* _run_ai_analysis(positions, config) is entered.
RunAiAnalysis(ps) ==
    /\ an.pc \in {"idle", "done"}
    /\ an' = [NoAnalysis EXCEPT !.pc = "loop", !.positions = ps, !.idx = 1]
    /\ UNCHANGED nonAnalysisVars

Advance(a) ==
    IF a.pc # "loop" THEN a
    ELSE IF a.idx = Len(a.positions) THEN [a EXCEPT !.pc = "report", !.idx = 0]
    ELSE [a EXCEPT !.idx = @ + 1]

\* The position has no market or no symbol: nothing is appended.
SkipPosition ==
    /\ an.pc = "loop"
    /\ ~Analysable(an.positions[an.idx])
    /\ an' = Advance(an)
    /\ UNCHANGED nonAnalysisVars

\* AnalysisService().analyze(...) for the position at idx ends with outcome o.
AnalyzePosition(o) ==
    /\ an.pc = "loop"
    /\ Analysable(an.positions[an.idx])
    /\ an' = Advance(AfterAnalyze(an, an.positions[an.idx], o))
    /\ UNCHANGED nonAnalysisVars

\* What _build_html_report shows for an entry (lines 457-513): the failure
\* box when pa.get('error') is truthy, else pa.get('final_decision', 'HOLD').
Rendered(pa) ==
    IF HasError(pa.error) THEN "analysis_failed"
    ELSE IF pa.final_decision = <<>> THEN "HOLD"
    ELSE pa.final_decision[1]

\* len([p for p in position_analyses if not p.get('error')])
AnalyzedCount(position_analyses) ==
    Cardinality({i \in 1..Len(position_analyses) : ~HasError(position_analyses[i].error)})

\* The report is built and the result returned (lines 229-239).
BuildReport ==
    /\ an.pc = "report"
    /\ an' = [an EXCEPT !.pc = "done", !.success = TRUE,
                        !.rendered = [i \in 1..Len(an.position_analyses) |->
                                        Rendered(an.position_analyses[i])],
                        !.position_count = Len(an.positions),
                        !.analyzed_count = AnalyzedCount(an.position_analyses)]
    /\ UNCHANGED nonAnalysisVars

(***************************************************************************)
(* A-share symbols and the provider codes made from them (cn_stock.py,     *)
(* AShareDataSource).  A symbol is the tuple of its characters; a provider *)
(* code is a tuple of the pieces the f-string puts together, the empty     *)
(* tuple standing for None.                                                *)
(***************************************************************************)
SymbolChars == {"0", "1", "3", "4", "5", "6", "8", "9", " "}

AShareSymbols == UNION { [1..n -> SymbolChars] : n \in 0..MaxSymbolLen }

\* symbol.startswith(c)
StartsWith(symbol, c) == Len(symbol) > 0 /\ symbol[1] = c

\* str.strip() of a symbol.
RECURSIVE LStripChars(_)
LStripChars(symbol) ==
    IF symbol # <<>> /\ symbol[1] = " " THEN LStripChars(Tail(symbol)) ELSE symbol
RECURSIVE RStripChars(_)
RStripChars(symbol) ==
    IF symbol # <<>> /\ symbol[Len(symbol)] = " "
    THEN RStripChars(SubSeq(symbol, 1, Len(symbol) - 1)) ELSE symbol
StripChars(symbol) == RStripChars(LStripChars(symbol))

\* _to_tencent_symbol
ToTencentSymbol(symbol) ==
    IF StartsWith(symbol, "6") THEN <<"sh", symbol>>
    ELSE IF StartsWith(symbol, "0") \/ StartsWith(symbol, "3") THEN <<"sz", symbol>>
    ELSE IF StartsWith(symbol, "4") \/ StartsWith(symbol, "8") THEN <<"bj", symbol>>
    ELSE <<>>

\* _to_yahoo_symbol
ToYahooSymbol(symbol) ==
    IF StartsWith(symbol, "6") THEN <<symbol, ".SS">>
    ELSE IF StartsWith(symbol, "0") \/ StartsWith(symbol, "3") THEN <<symbol, ".SZ">>
    ELSE IF StartsWith(symbol, "4") \/ StartsWith(symbol, "8") THEN <<symbol, ".BJ">>
    ELSE <<>>

\* The secid of the candle query (_fetch_eastmoney_ashare, lines 266-269).
KlineSecid(symbol) ==
    IF StartsWith(symbol, "6") THEN <<"1", ".", symbol>> ELSE <<"0", ".", symbol>>

\* The secid of the ticker query (get_ticker, lines 407-419): the symbol is
\* stripped first.
TickerSecid(raw) ==
    LET symbol == StripChars(raw)
    IN IF StartsWith(symbol, "6") THEN <<"1", ".", symbol>>
       ELSE IF StartsWith(symbol, "0") \/ StartsWith(symbol, "3") THEN <<"0", ".", symbol>>
       ELSE IF StartsWith(symbol, "4") \/ StartsWith(symbol, "8") THEN <<"0", ".", symbol>>
       ELSE <<"1", ".", symbol>>

NotComputed == <<"?">>

NoSymbol ==
    [ symbol |-> <<>>, tencent |-> NotComputed, yahoo |-> NotComputed,
      kline_secid |-> NotComputed, ticker_secid |-> NotComputed ]

\* The ticker fallback by way of Tencent (get_ticker, line 454):
\* tencent_symbol = _to_tencent_symbol(symbol), the symbol stripped at line 407.
TencentPath ==
    /\ sym.tencent = NotComputed
    /\ sym' = [sym EXCEPT !.tencent = ToTencentSymbol(StripChars(sym.symbol))]
    /\ UNCHANGED nonSymbolVars

\* The candle query by way of yfinance (get_kline, line 213):
\* yahoo_symbol = _to_yahoo_symbol(symbol).
YahooPath ==
    /\ sym.yahoo = NotComputed
    /\ sym' = [sym EXCEPT !.yahoo = ToYahooSymbol(sym.symbol)]
    /\ UNCHANGED nonSymbolVars

\* _fetch_eastmoney_ashare builds its secid.
FetchEastmoneyAshare ==
    /\ sym.kline_secid = NotComputed
    /\ sym' = [sym EXCEPT !.kline_secid = KlineSecid(sym.symbol)]
    /\ UNCHANGED nonSymbolVars

\* get_ticker builds its secid.
GetTicker ==
    /\ sym.ticker_secid = NotComputed
    /\ sym' = [sym EXCEPT !.ticker_secid = TickerSecid(sym.symbol)]
    /\ UNCHANGED nonSymbolVars

(***************************************************************************)
(* The monitor service: start_monitor_service, stop_monitor_service and    *)
(* the threads that run _monitor_loop (portfolio_monitor.py).  All threads *)
(* share the one module-level _stop_event.                                 *)
(***************************************************************************)
JoinTimeout == 5

ThreadIds == 1..MaxThreads

\* thread: where each thread is ("unborn" before Thread.start(), "cond" at
\* the while test, "iteration" inside the try of the loop, "wait" in
\* _stop_event.wait(30), "exited" after the loop).  joining is the thread a
\* running stop_monitor_service waits for.  entered and timed_out are
\* history: the threads that have passed the while test since the last
\* start_monitor_service, and whether the last join ran out of time.
NoService ==
    [ monitor_thread |-> NULL, stop_event |-> FALSE, joining |-> NULL,
      thread |-> [t \in ThreadIds |-> "unborn"],
      entered |-> {}, timed_out |-> FALSE ]

\* Thread.is_alive()
IsAlive(s, t) == s.thread[t] \notin {"unborn", "exited"}

\* start_monitor_service: nothing when _monitor_thread is set and alive;
\* else the event is cleared and a new thread is started and remembered.
StartMonitorService ==
    /\ svc.joining = NULL
    /\ \E t \in ThreadIds :
          /\ svc.thread[t] = "unborn"
          /\ \A u \in ThreadIds : u < t => svc.thread[u] # "unborn"
          /\ svc' = IF svc.monitor_thread # NULL /\ IsAlive(svc, svc.monitor_thread)
                    THEN svc
                    ELSE [svc EXCEPT !.stop_event = FALSE,
                                     !.monitor_thread = t,
                                     !.thread[t] = "cond",
                                     !.entered = {}, !.timed_out = FALSE]
    /\ UNCHANGED nonServiceVars

\* stop_monitor_service up to the join: _stop_event.set(); without a
\* remembered thread the call is over.
StopAndJoin ==
    /\ svc.joining = NULL
    /\ svc' = [svc EXCEPT !.stop_event = TRUE, !.joining = svc.monitor_thread]
    /\ UNCHANGED nonServiceVars

\* _monitor_thread.join(timeout=5) returns, the thread ended or not, and
\* _monitor_thread = None.  The join runs out of time on a thread that is
\* inside an iteration (a monitor run takes longer than JoinTimeout); a
\* thread at the while test or in the wait sees the event at once.
JoinReturns ==
    /\ svc.joining # NULL
    /\ svc.thread[svc.joining] \in {"exited", "iteration"}
    /\ svc' = [svc EXCEPT !.joining = NULL, !.monitor_thread = NULL,
                          !.timed_out = svc.thread[svc.joining] # "exited"]
    /\ UNCHANGED nonServiceVars

\* while not _stop_event.is_set()
LoopTest(t) ==
    /\ svc.thread[t] = "cond"
    /\ svc' = IF svc.stop_event
              THEN [svc EXCEPT !.thread[t] = "exited"]
              ELSE [svc EXCEPT !.thread[t] = "iteration", !.entered = @ \cup {t}]
    /\ UNCHANGED nonServiceVars

\* The try of the iteration is over (the alert pass, the due monitors run or
\* the batch cut short by the event).
IterationEnds(t) ==
    /\ svc.thread[t] = "iteration"
    /\ svc' = [svc EXCEPT !.thread[t] = "wait"]
    /\ UNCHANGED nonServiceVars

\* _stop_event.wait(30) returns: the event was set, or 30 s have passed.
WaitReturns(t) ==
    /\ svc.thread[t] = "wait"
    /\ svc' = [svc EXCEPT !.thread[t] = "cond"]
    /\ UNCHANGED nonServiceVars
(***************************************************************************)
(* The alert scheduler with its users                                      *)
(***************************************************************************)
OthersIdleForAlerts ==
    /\ monitors = <<>>
    /\ positions = {}
    /\ run = <<>>
    /\ ns = <<>>
    /\ cache = <<>>
    /\ cache_ttl = <<>>
    /\ call = <<>>
    /\ prevCall = <<>>
    /\ kcall = <<>>
    /\ query = NoQuery
    /\ agg = NoAgg
    /\ wh = NoWebhook
    /\ dc = NoDiscord
    /\ snd = NoSender
    /\ loop = NoLoop
    /\ rl = NoLimiter
    /\ pr = NoRequest
    /\ an = NoAnalysis
    /\ sym = NoSymbol
    /\ svc = NoService

InitAlerts ==
    /\ now = 0
    /\ \E rule \in AlertRules, r \in RepeatIntervals :
          alerts = [a \in AlertIds |->
                      IF a \in EditedAlerts
                      THEN NewAlert(rule[1], rule[2], TRUE, r)
                      ELSE NewAlert(SetupPriceBelow, ConfigBrowser, TRUE, 0)]
    /\ pass = IdlePass
    /\ armed = [a \in AlertIds |-> 0]
    /\ OthersIdleForAlerts

NextAlerts ==
    \/ StartPass
    \/ Evaluate
    \/ Skip
    \/ Persist
    \/ PersistFails
    \/ Notify
    \/ FinishAlert
    \/ Crash
    \/ TickAlerts
    \/ \E a \in EditedAlerts, d \in UpdateRequests : UpdateAlert(a, d)
    \/ \E a \in EditedAlerts, d \in AddRequests : AddAlertExisting(a, d)

SpecAlerts == InitAlerts /\ [][NextAlerts]_vars


(***************************************************************************)
(* Alert parameters: the routes that write them and the pass that reads    *)
(* them                                                                    *)
(***************************************************************************)
NextAlertEdits ==
    \/ StartPass
    \/ Evaluate
    \/ Skip
    \/ Persist
    \/ PersistFails
    \/ Notify
    \/ FinishAlert
    \/ \E a \in EditedAlerts, d \in ParamUpdateRequests : UpdateAlert(a, d)
    \/ \E a \in EditedAlerts, d \in ParamAddRequests : AddAlertExisting(a, d)

SpecAlertEdits == InitAlerts /\ [][NextAlertEdits]_vars

(***************************************************************************)
(* The alert pass over PnL rules                                           *)
(***************************************************************************)
InitPnlAlerts ==
    /\ now = 0
    /\ \E setup \in PnlSetups :
          alerts = [a \in AlertIds |->
                      IF a \in EditedAlerts
                      THEN NewAlert(setup, ConfigBrowser, TRUE, 0)
                      ELSE NewAlert(SetupPriceBelow, ConfigBrowser, TRUE, 0)]
    /\ pass = IdlePass
    /\ armed = [a \in AlertIds |-> 0]
    /\ OthersIdleForAlerts

NextPnlAlerts ==
    \/ StartPass
    \/ Evaluate
    \/ Skip
    \/ Persist
    \/ PersistFails
    \/ Notify
    \/ FinishAlert

SpecPnlAlerts == InitPnlAlerts /\ [][NextPnlAlerts]_vars

(***************************************************************************)
(* The monitor runs with their users                                       *)
(***************************************************************************)
OthersIdleForMonitors ==
    /\ alerts = <<>>
    /\ pass = <<>>
    /\ armed = <<>>
    /\ ns = <<>>
    /\ cache = <<>>
    /\ cache_ttl = <<>>
    /\ call = <<>>
    /\ prevCall = <<>>
    /\ kcall = <<>>
    /\ query = NoQuery
    /\ agg = NoAgg
    /\ wh = NoWebhook
    /\ dc = NoDiscord
    /\ snd = NoSender
    /\ loop = NoLoop
    /\ rl = NoLimiter
    /\ pr = NoRequest
    /\ an = NoAnalysis
    /\ sym = NoSymbol
    /\ svc = NoService

InitMonitors ==
    /\ now = 0
    /\ \E type \in MonitorTypes, ids \in SUBSET PositionIds, i \in IntervalChoices,
          chs \in MonitorChannelLists :
          monitors = [m \in MonitorIds |-> NewMonitor(type, ids, i, chs, TRUE, 0)]
    /\ positions = PositionIds
    /\ run = IdleRun
    /\ OthersIdleForMonitors

NextMonitors ==
    \/ \E m \in MonitorIds : SchedulerRun(m)
    \/ \E m \in MonitorIds, uid \in Users : RunMonitorNow(m, uid)
    \/ GetPositions
    \/ Analyse
    \/ RunUpdate
    \/ RunUpdateFails
    \/ RunNotify
    \/ RunReturn
    \/ \E m \in MonitorIds, d \in MonitorUpdates : UpdateMonitor(m, Owner, d)
    \/ \E p \in PositionIds : DeletePosition(p)
    \/ TickMonitors

SpecMonitors == InitMonitors /\ [][NextMonitors]_vars

(***************************************************************************)
(* notify_signal and its callers                                           *)
(***************************************************************************)
OthersIdleForNotify ==
    /\ now = 0
    /\ alerts = <<>>
    /\ pass = <<>>
    /\ armed = <<>>
    /\ monitors = <<>>
    /\ positions = {}
    /\ run = <<>>
    /\ cache = <<>>
    /\ cache_ttl = <<>>
    /\ call = <<>>
    /\ prevCall = <<>>
    /\ kcall = <<>>
    /\ query = NoQuery
    /\ agg = NoAgg
    /\ wh = NoWebhook
    /\ dc = NoDiscord
    /\ snd = NoSender
    /\ loop = NoLoop
    /\ rl = NoLimiter
    /\ pr = NoRequest
    /\ an = NoAnalysis
    /\ sym = NoSymbol
    /\ svc = NoService

NotifyConfigs ==
    { [has_channels |-> FALSE, channels |-> <<>>] } \cup
    { [has_channels |-> TRUE, channels |-> s] : s \in ListsUpTo(MaxChannels) }

InitNotify ==
    /\ ns = IdleNotify
    /\ OthersIdleForNotify

NextNotify ==
    \/ \E cfg \in NotifyConfigs : NotifySignal(cfg)
    \/ NotifyChannel
    \/ NotifyReturn
    \/ NotifyDone

SpecNotify == InitNotify /\ [][NextNotify]_vars

(***************************************************************************)
(* The realtime price service with its callers                             *)
(***************************************************************************)
OthersIdleForPrice ==
    /\ alerts = <<>>
    /\ pass = <<>>
    /\ armed = <<>>
    /\ monitors = <<>>
    /\ positions = {}
    /\ run = <<>>
    /\ ns = <<>>
    /\ query = NoQuery
    /\ agg = NoAgg
    /\ wh = NoWebhook
    /\ dc = NoDiscord
    /\ snd = NoSender
    /\ loop = NoLoop
    /\ rl = NoLimiter
    /\ pr = NoRequest
    /\ an = NoAnalysis
    /\ sym = NoSymbol
    /\ svc = NoService

InitPrice ==
    /\ now = 0
    /\ cache = EmptyCache
    /\ cache_ttl \in CacheTtlSettings
    /\ call = NoCall
    /\ prevCall = NoCall
    /\ kcall = NoKlineCall
    /\ OthersIdleForPrice

NextPrice ==
    \/ \E force_refresh \in BOOLEAN, ticker \in TickerAnswers,
          answer1m \in MinuteAnswers, answer1D \in DailyAnswers :
          GetRealtimePrice(force_refresh, ticker, answer1m, answer1D)
    \/ TickPrice

SpecPrice == InitPrice /\ [][NextPrice]_vars

\* The service has just served a ticker price: its snapshot is in the cache
\* and is served for 30 s.  The call history starts here.
InitPriceServed ==
    /\ now = 0
    /\ cache \in {EmptyCache, CacheSetPrice(EmptyCache, FromTicker(10000), TickerTtl)}
    /\ cache_ttl \in CacheTtlSettings
    /\ call = NoCall
    /\ prevCall = NoCall
    /\ kcall = NoKlineCall
    /\ OthersIdleForPrice

SpecPriceServed == InitPriceServed /\ [][NextPrice]_vars

(***************************************************************************)
(* get_kline called on its own                                             *)
(***************************************************************************)
OthersIdleForKline ==
    /\ alerts = <<>>
    /\ pass = <<>>
    /\ armed = <<>>
    /\ monitors = <<>>
    /\ positions = {}
    /\ run = <<>>
    /\ ns = <<>>
    /\ query = NoQuery
    /\ agg = NoAgg
    /\ wh = NoWebhook
    /\ dc = NoDiscord
    /\ snd = NoSender
    /\ loop = NoLoop
    /\ rl = NoLimiter
    /\ pr = NoRequest
    /\ an = NoAnalysis
    /\ sym = NoSymbol
    /\ svc = NoService

InitKline ==
    /\ now = 0
    /\ cache = EmptyCache
    /\ cache_ttl \in CacheTtlSettings
    /\ call = NoCall
    /\ prevCall = NoCall
    /\ kcall = NoKlineCall
    /\ OthersIdleForKline

NextKline ==
    \/ \E timeframe \in {"1m", "1D"}, before_time \in BOOLEAN :
          \E answer \in AnswersFor(timeframe) : GetKlineCall(timeframe, before_time, answer)
    \/ TickPrice

SpecKline == InitKline /\ [][NextKline]_vars

(***************************************************************************)
(* Candle queries on their own                                             *)
(***************************************************************************)
OthersIdleForQuery ==
    /\ now = 0
    /\ alerts = <<>>
    /\ pass = <<>>
    /\ armed = <<>>
    /\ monitors = <<>>
    /\ positions = {}
    /\ run = <<>>
    /\ ns = <<>>
    /\ cache = EmptyCache
    /\ cache_ttl = [tf \in {"1m", "1D"} |-> NULL]
    /\ call = NoCall
    /\ prevCall = NoCall
    /\ kcall = NoKlineCall
    /\ agg = NoAgg
    /\ wh = NoWebhook
    /\ dc = NoDiscord
    /\ snd = NoSender
    /\ loop = NoLoop
    /\ rl = NoLimiter
    /\ pr = NoRequest
    /\ an = NoAnalysis
    /\ sym = NoSymbol
    /\ svc = NoService

InitQuery ==
    /\ query = NoQuery
    /\ OthersIdleForQuery

NextQuery ==
    \/ \E t \in QueryTargets, timeframe \in QueryTimeframes, limit \in Limits,
          before_time \in BeforeTimes, has_akshare \in BOOLEAN, finnhub_client \in BOOLEAN :
          StartQuery(t[1], t[2], timeframe, limit, before_time, has_akshare, finnhub_client)
    \/ InvokeProvider

SpecQuery == InitQuery /\ [][NextQuery]_vars

(***************************************************************************)
(* Aggregations on their own                                               *)
(***************************************************************************)
OthersIdleForAggregate ==
    /\ now = 0
    /\ alerts = <<>>
    /\ pass = <<>>
    /\ armed = <<>>
    /\ monitors = <<>>
    /\ positions = {}
    /\ run = <<>>
    /\ ns = <<>>
    /\ cache = EmptyCache
    /\ cache_ttl = [tf \in {"1m", "1D"} |-> NULL]
    /\ call = NoCall
    /\ prevCall = NoCall
    /\ kcall = NoKlineCall
    /\ query = NoQuery
    /\ wh = NoWebhook
    /\ dc = NoDiscord
    /\ snd = NoSender
    /\ loop = NoLoop
    /\ rl = NoLimiter
    /\ pr = NoRequest
    /\ an = NoAnalysis
    /\ sym = NoSymbol
    /\ svc = NoService

InitAggregate ==
    /\ agg \in PendingAggregations
    /\ OthersIdleForAggregate

NextAggregate ==
    \/ FetchAndAggregate4h
    \/ ForexGetKline

SpecAggregate == InitAggregate /\ [][NextAggregate]_vars

(***************************************************************************)
(* One webhook delivery on its own                                         *)
(***************************************************************************)
OthersIdleForWebhook ==
    /\ alerts = <<>>
    /\ pass = <<>>
    /\ armed = <<>>
    /\ monitors = <<>>
    /\ positions = {}
    /\ run = <<>>
    /\ ns = <<>>
    /\ cache = EmptyCache
    /\ cache_ttl = [tf \in {"1m", "1D"} |-> NULL]
    /\ call = NoCall
    /\ prevCall = NoCall
    /\ kcall = NoKlineCall
    /\ query = NoQuery
    /\ agg = NoAgg
    /\ dc = NoDiscord
    /\ snd = NoSender
    /\ loop = NoLoop
    /\ rl = NoLimiter
    /\ pr = NoRequest
    /\ an = NoAnalysis
    /\ sym = NoSymbol
    /\ svc = NoService

InitWebhook ==
    /\ now \in WebhookClock
    /\ wh = NoWebhook
    /\ OthersIdleForWebhook

NextWebhook ==
    \/ \E url \in WebhookUrls, payload \in WebhookPayloads, headers_override \in HeaderOverrides,
          token_override \in WebhookTokens, signing_secret_override \in SecretOverrides,
          env \in EnvSecrets :
          NotifyWebhook(url, payload, headers_override, token_override,
                        signing_secret_override, env)
    \/ \E status \in Responses : FirstResponse(status)
    \/ \E status \in Responses : SecondResponse(status)

SpecWebhook == InitWebhook /\ [][NextWebhook]_vars

(***************************************************************************)
(* Discord deliveries on their own                                         *)
(***************************************************************************)
OthersIdleForDiscord ==
    /\ now = 0
    /\ alerts = <<>>
    /\ pass = <<>>
    /\ armed = <<>>
    /\ monitors = <<>>
    /\ positions = {}
    /\ run = <<>>
    /\ ns = <<>>
    /\ cache = EmptyCache
    /\ cache_ttl = [tf \in {"1m", "1D"} |-> NULL]
    /\ call = NoCall
    /\ prevCall = NoCall
    /\ kcall = NoKlineCall
    /\ query = NoQuery
    /\ agg = NoAgg
    /\ wh = NoWebhook
    /\ snd = NoSender
    /\ loop = NoLoop
    /\ rl = NoLimiter
    /\ pr = NoRequest
    /\ an = NoAnalysis
    /\ sym = NoSymbol
    /\ svc = NoService

InitDiscord ==
    /\ dc = NoDiscord
    /\ OthersIdleForDiscord

NextDiscord ==
    \/ \E url \in WebhookUrls : NotifyDiscord(url)
    \/ \E status \in Responses, retry_after \in RetryAfters : EmbedResponse(status, retry_after)
    \/ \E status \in Responses : RetryResponse(status)
    \/ \E status \in Responses : FallbackResponse(status)

SpecDiscord == InitDiscord /\ [][NextDiscord]_vars

(***************************************************************************)
(* The senders that need a credential or a target, each on its own call    *)
(***************************************************************************)
OthersIdleForSenders ==
    /\ alerts = <<>>
    /\ pass = <<>>
    /\ armed = <<>>
    /\ monitors = <<>>
    /\ positions = {}
    /\ run = <<>>
    /\ ns = <<>>
    /\ cache = EmptyCache
    /\ cache_ttl = [tf \in {"1m", "1D"} |-> NULL]
    /\ call = NoCall
    /\ prevCall = NoCall
    /\ kcall = NoKlineCall
    /\ query = NoQuery
    /\ agg = NoAgg
    /\ dc = NoDiscord
    /\ loop = NoLoop
    /\ rl = NoLimiter
    /\ pr = NoRequest
    /\ an = NoAnalysis
    /\ sym = NoSymbol
    /\ svc = NoService

InitSenders ==
    /\ now = 0
    /\ wh = NoWebhook
    /\ snd = NoSender
    /\ OthersIdleForSenders

NextSenders ==
    \/ \E chat_id \in ChatIds, targets_token \in UserTokens, cfg_token \in UserTokens,
          env_token \in EnvTokens : NotifyTelegram(chat_id, targets_token, cfg_token, env_token)
    \/ \E to_email \in EmailTargets, smtp_host \in SmtpHosts, env_from \in SmtpFroms,
          smtp_user \in SmtpUsers : NotifyEmail(to_email, smtp_host, env_from, smtp_user)
    \/ \E to_phone \in PhoneTargets, twilio_sid \in TwilioValues, twilio_token \in TwilioValues,
          twilio_from \in TwilioValues : NotifyPhone(to_phone, twilio_sid, twilio_token, twilio_from)
    \/ \E status \in Responses : SenderResponse(status)
    \/ \E url \in WebhookUrls : NotifyWebhook(url, "signal", NoOverride, "", "", "")
    \/ \E status \in Responses : FirstResponse(status)
    \/ \E status \in Responses : SecondResponse(status)

SpecSenders == InitSenders /\ [][NextSenders]_vars

(***************************************************************************)
(* The scheduler thread and its stop signal                                *)
(***************************************************************************)
OthersIdleForScheduler ==
    /\ alerts = <<>>
    /\ pass = <<>>
    /\ armed = <<>>
    /\ monitors = <<>>
    /\ positions = {}
    /\ run = <<>>
    /\ ns = <<>>
    /\ cache = EmptyCache
    /\ cache_ttl = [tf \in {"1m", "1D"} |-> NULL]
    /\ call = NoCall
    /\ prevCall = NoCall
    /\ kcall = NoKlineCall
    /\ query = NoQuery
    /\ agg = NoAgg
    /\ wh = NoWebhook
    /\ dc = NoDiscord
    /\ snd = NoSender
    /\ rl = NoLimiter
    /\ pr = NoRequest
    /\ an = NoAnalysis
    /\ sym = NoSymbol
    /\ svc = NoService

InitScheduler ==
    /\ now = LoopStart
    /\ \E table \in SchedulerTables : loop = [NoLoop EXCEPT !.table = table]
    /\ OthersIdleForScheduler

LoopStep ==
    \/ LoopCondition
    \/ CheckAlertRow
    \/ SelectDue
    \/ BeginRun
    \/ EndRun
    \/ Sleep

NextScheduler ==
    \/ LoopStep
    \/ StopMonitorService

SpecScheduler == InitScheduler /\ [][NextScheduler]_vars

\* The thread keeps running: every call it makes returns.
SpecSchedulerLive == SpecScheduler /\ WF_vars(LoopStep)

(***************************************************************************)
(* The pool's workers at the rate limiter                                  *)
(***************************************************************************)
OthersIdleForLimiter ==
    /\ now = 0
    /\ alerts = <<>>
    /\ pass = <<>>
    /\ armed = <<>>
    /\ monitors = <<>>
    /\ positions = {}
    /\ run = <<>>
    /\ ns = <<>>
    /\ cache = EmptyCache
    /\ cache_ttl = [tf \in {"1m", "1D"} |-> NULL]
    /\ call = NoCall
    /\ prevCall = NoCall
    /\ kcall = NoKlineCall
    /\ query = NoQuery
    /\ agg = NoAgg
    /\ wh = NoWebhook
    /\ dc = NoDiscord
    /\ snd = NoSender
    /\ loop = NoLoop
    /\ pr = NoRequest
    /\ an = NoAnalysis
    /\ sym = NoSymbol
    /\ svc = NoService

InitLimiter ==
    /\ rl = NoLimiter
    /\ OthersIdleForLimiter

NextLimiter ==
    \/ \E k \in PoolWorkers, market \in LimitedMarkets : Submit(k, market)
    \/ \E k \in PoolWorkers : AcquireAndRead(k)
    \/ \E k \in PoolWorkers : WriteAndRelease(k)
    \/ TickLimiter

SpecLimiter == InitLimiter /\ [][NextLimiter]_vars

(***************************************************************************)
(* One request that fans out price lookups                                 *)
(***************************************************************************)
OthersIdleForPositions ==
    /\ now = 0
    /\ alerts = <<>>
    /\ pass = <<>>
    /\ armed = <<>>
    /\ monitors = <<>>
    /\ positions = {}
    /\ run = <<>>
    /\ ns = <<>>
    /\ cache = EmptyCache
    /\ cache_ttl = [tf \in {"1m", "1D"} |-> NULL]
    /\ call = NoCall
    /\ prevCall = NoCall
    /\ kcall = NoKlineCall
    /\ query = NoQuery
    /\ agg = NoAgg
    /\ wh = NoWebhook
    /\ dc = NoDiscord
    /\ snd = NoSender
    /\ loop = NoLoop
    /\ rl = NoLimiter
    /\ an = NoAnalysis
    /\ sym = NoSymbol
    /\ svc = NoService

InitPositions ==
    /\ pr = NoRequest
    /\ OthersIdleForPositions

NextPositions ==
    \/ \E route \in {"positions", "summary"}, rows \in PositionRows : SubmitLookups(route, rows)
    \/ CollectResult
    \/ Respond

SpecPositions == InitPositions /\ [][NextPositions]_vars

(***************************************************************************)
(* One AI analysis of a monitor's positions                                *)
(***************************************************************************)
OthersIdleForAnalysis ==
    /\ now = 0
    /\ alerts = <<>>
    /\ pass = <<>>
    /\ armed = <<>>
    /\ monitors = <<>>
    /\ positions = {}
    /\ run = <<>>
    /\ ns = <<>>
    /\ cache = EmptyCache
    /\ cache_ttl = [tf \in {"1m", "1D"} |-> NULL]
    /\ call = NoCall
    /\ prevCall = NoCall
    /\ kcall = NoKlineCall
    /\ query = NoQuery
    /\ agg = NoAgg
    /\ wh = NoWebhook
    /\ dc = NoDiscord
    /\ snd = NoSender
    /\ loop = NoLoop
    /\ rl = NoLimiter
    /\ pr = NoRequest
    /\ sym = NoSymbol
    /\ svc = NoService

InitAnalysis ==
    /\ an = NoAnalysis
    /\ OthersIdleForAnalysis

NextAnalysis ==
    \/ \E ps \in PositionLists : RunAiAnalysis(ps)
    \/ SkipPosition
    \/ \E o \in AnalyzeOutcomes : AnalyzePosition(o)
    \/ BuildReport

SpecAnalysis == InitAnalysis /\ [][NextAnalysis]_vars

(***************************************************************************)
(* The provider paths of one A-share symbol                                *)
(***************************************************************************)
OthersIdleForSymbols ==
    /\ now = 0
    /\ alerts = <<>>
    /\ pass = <<>>
    /\ armed = <<>>
    /\ monitors = <<>>
    /\ positions = {}
    /\ run = <<>>
    /\ ns = <<>>
    /\ cache = EmptyCache
    /\ cache_ttl = [tf \in {"1m", "1D"} |-> NULL]
    /\ call = NoCall
    /\ prevCall = NoCall
    /\ kcall = NoKlineCall
    /\ query = NoQuery
    /\ agg = NoAgg
    /\ wh = NoWebhook
    /\ dc = NoDiscord
    /\ snd = NoSender
    /\ loop = NoLoop
    /\ rl = NoLimiter
    /\ pr = NoRequest
    /\ an = NoAnalysis
    /\ svc = NoService

InitSymbols ==
    /\ \E symbol \in AShareSymbols : sym = [NoSymbol EXCEPT !.symbol = symbol]
    /\ OthersIdleForSymbols

NextSymbols ==
    \/ TencentPath
    \/ YahooPath
    \/ FetchEastmoneyAshare
    \/ GetTicker

SpecSymbols == InitSymbols /\ [][NextSymbols]_vars

(***************************************************************************)
(* The monitor service being started and stopped                           *)
(***************************************************************************)
OthersIdleForService ==
    /\ now = 0
    /\ alerts = <<>>
    /\ pass = <<>>
    /\ armed = <<>>
    /\ monitors = <<>>
    /\ positions = {}
    /\ run = <<>>
    /\ ns = <<>>
    /\ cache = EmptyCache
    /\ cache_ttl = [tf \in {"1m", "1D"} |-> NULL]
    /\ call = NoCall
    /\ prevCall = NoCall
    /\ kcall = NoKlineCall
    /\ query = NoQuery
    /\ agg = NoAgg
    /\ wh = NoWebhook
    /\ dc = NoDiscord
    /\ snd = NoSender
    /\ loop = NoLoop
    /\ rl = NoLimiter
    /\ pr = NoRequest
    /\ an = NoAnalysis
    /\ sym = NoSymbol

InitService ==
    /\ svc = NoService
    /\ OthersIdleForService

NextService ==
    \/ StartMonitorService
    \/ StopAndJoin
    \/ JoinReturns
    \/ \E t \in ThreadIds : LoopTest(t)
    \/ \E t \in ThreadIds : IterationEnds(t)
    \/ \E t \in ThreadIds : WaitReturns(t)

SpecService == InitService /\ [][NextService]_vars
(***************************************************************************)
(* Properties of the alert scheduler                                       *)
(***************************************************************************)

\* The pass has evaluated its current row (gate, price, comparison).
Evaluated == pass.pc \in {"skip", "persist", "notify"}

C2_EligibleRow ==
    Evaluated =>
      LET row == CurrentRow
          elapsed == pass.now - row.last_triggered_at
      IN /\ pass.eligible =>
               \/ ~row.is_triggered
               \/ row.repeat_interval > 0 /\ elapsed >= row.repeat_interval
         /\ row.is_triggered /\ row.repeat_interval = 600 /\ elapsed = 599 => ~pass.eligible
         /\ row.is_triggered /\ row.repeat_interval = 600 /\ elapsed = 601 =>
               /\ pass.eligible
               /\ row.alert_type = "price_above" /\ pass.price >= row.threshold => pass.triggered
               /\ row.alert_type = "price_below" /\ pass.price > 0 /\ pass.price <= row.threshold
                    => pass.triggered

C2_ReadsActive ==
    pass.pc = "idle" /\ pass'.pc = "eval" =>
      \A i \in 1..Len(pass'.rows) : alerts[pass'.rows[i].id].is_active

C2_Eligibility == [](C2_EligibleRow) /\ [][C2_ReadsActive]_vars

\* A triggered rule with R = 600 is triggered again 601 s later.
C2_Witness ==
    /\ pass.pc = "notify"
    /\ CurrentRow.is_triggered
    /\ CurrentRow.repeat_interval = 600
    /\ pass.now - CurrentRow.last_triggered_at = 601
    /\ alerts[CurrentRow.id].trigger_count = 2

\* C3: for an eligible price rule with a resolved price p > 0 the comparison
\* is true exactly when p >= threshold (price_above) or p <= threshold
\* (price_below); and a status write is made for a rule only when the rule
\* is not triggered in the store or its repeat interval R > 0 has elapsed
\* since last_triggered_at, so it fires once per eligibility window.
C3_Comparison ==
    Evaluated /\ pass.eligible /\ pass.price > 0 =>
      /\ CurrentRow.alert_type = "price_above" =>
            (pass.triggered <=> pass.price >= CurrentRow.threshold)
      /\ CurrentRow.alert_type = "price_below" =>
            (pass.triggered <=> pass.price <= CurrentRow.threshold)
      /\ pass.triggered <=> pass.pc \in {"persist", "notify"}

C3_OncePerWindow ==
    \A a \in AlertIds :
      alerts'[a].trigger_count # alerts[a].trigger_count =>
        \/ ~alerts[a].is_triggered
        \/ /\ CurrentRow.repeat_interval > 0
           /\ pass.now - alerts[a].last_triggered_at >= CurrentRow.repeat_interval

C3_PriceTrigger == [](C3_Comparison) /\ [][C3_OncePerWindow]_vars

\* price_above with threshold 100.00: passed over at 99.99 ...
C3_WitnessBelow ==
    /\ pass.pc = "skip"
    /\ pass.eligible
    /\ CurrentRow.alert_type = "price_above"
    /\ CurrentRow.threshold = 10000
    /\ pass.price = 9999

\* ... and triggered at 100.00.
C3_Witness ==
    /\ pass.pc = "notify"
    /\ CurrentRow.alert_type = "price_above"
    /\ CurrentRow.threshold = 10000
    /\ pass.price = 10000
    /\ alerts[CurrentRow.id].is_triggered

\* C4: evaluate, persist, notify in that order: deliveries are made only
\* after the one status write of the evaluation is committed, the write
\* adds exactly one to trigger_count before any delivery, and a pass that
\* ends or dies after the write leaves the stored status as written.
C4_WriteBeforeDelivery ==
    /\ pass.writes <= 1
    /\ pass.pc = "notify" => pass.writes = 1 /\ pass.triggered
    /\ pass.attempted # <<>> => pass.pc = "notify"

C4_OneWrite ==
    /\ \A a \in AlertIds :
          alerts'[a].trigger_count # alerts[a].trigger_count =>
            /\ alerts'[a].trigger_count = alerts[a].trigger_count + 1
            /\ alerts'[a].is_triggered
            /\ alerts'[a].last_triggered_at = now
            /\ pass.pc = "persist" /\ pass.writes = 0
            /\ pass'.pc = "notify" /\ pass'.writes = 1 /\ pass'.attempted = <<>>
            /\ CurrentRow.id = a
    /\ pass.pc = "notify" /\ pass'.pc # "notify" =>
          \A a \in AlertIds : alerts'[a].trigger_count = alerts[a].trigger_count

C4_PersistThenNotify == [](C4_WriteBeforeDelivery) /\ [][C4_OneWrite]_vars

\* A delivery has been made after the status write.
C4_Witness ==
    /\ pass.pc = "notify"
    /\ pass.writes = 1
    /\ Len(pass.attempted) >= 1
    /\ alerts[CurrentRow.id].trigger_count >= 1

\* C7: when a rule has triggered and its channel loop is through, every
\* channel of notification_config.channels has been attempted exactly once.
C7_EveryChannelAttempted ==
    pass.pc = "notify" =>
      LET channels == ChannelsOf(CurrentRow.notification_config)
      IN pass.chIdx > Len(channels) =>
           pass.attempted = [j \in 1..Len(channels) |-> NormalizeChannel(channels[j])]

\* PUT /alerts/<id> with is_active = true, or POST /alerts for the position
\* of an existing rule, is made for rule a in this step.
RearmingRequest(a) ==
    \/ \E d \in UpdateRequests : d.has_active /\ d.is_active /\ UpdateAlert(a, d)
    \/ \E d \in AddRequests : AddAlertExisting(a, d)

\* Both requests leave the rule untriggered with trigger_count and
\* last_triggered_at as they were.
C37_RoutesRearm ==
    \A a \in EditedAlerts :
      RearmingRequest(a) =>
        /\ ~alerts'[a].is_triggered
        /\ alerts'[a].trigger_count = alerts[a].trigger_count
        /\ alerts'[a].last_triggered_at = alerts[a].last_triggered_at

\* is_triggered goes back to 0 in such a request only; no step of a pass
\* does it.
C37_OnlyRoutesRearm ==
    \A a \in AlertIds :
      alerts[a].is_triggered /\ ~alerts'[a].is_triggered =>
        RearmingRequest(a) /\ pass' = pass

\* A pass reads is_triggered as stored, and a row read as untriggered passes
\* the can_trigger gate.
C37_PassReadsStore ==
    pass.pc = "idle" /\ pass'.pc = "eval" =>
      \A i \in 1..Len(pass'.rows) :
        pass'.rows[i].is_triggered = alerts[pass'.rows[i].id].is_triggered

C37_UntriggeredIsEligible ==
    /\ Evaluated /\ ~CurrentRow.is_triggered => pass.eligible
    /\ \A a \in AlertIds : ~alerts[a].is_triggered => armed[a] = 0

\* C37: update_alert with is_active = true and add_alert for a position that
\* has an alert reset is_triggered to 0 and leave trigger_count unchanged;
\* the rule stays untriggered until the scheduler's next status write for
\* it, and a pass that reads it so lets it through the can_trigger gate
\* whatever its repeat_interval and last_triggered_at; no other step, of a
\* route or of a pass, sets is_triggered back to 0.
C37_ExplicitRearm ==
    /\ [](C37_UntriggeredIsEligible)
    /\ [][C37_RoutesRearm]_vars
    /\ [][C37_OnlyRoutesRearm]_vars
    /\ [][C37_PassReadsStore]_vars

\* A rule with repeat_interval 600 that fired, was re-armed and fired again
\* less than 600 s after its first trigger.
C37_Witness ==
    /\ pass.pc = "notify"
    /\ ~CurrentRow.is_triggered
    /\ CurrentRow.last_triggered_at # NULL
    /\ CurrentRow.repeat_interval = 600
    /\ pass.now - CurrentRow.last_triggered_at < 600
    /\ alerts[CurrentRow.id].trigger_count = 2


(***************************************************************************)
(* Alert parameters                                                        *)
(***************************************************************************)
\* C26: no rule the scheduler evaluates has an alert_type outside the four
\* valid ones or a threshold of zero or below.
C26_OnlyValidRulesEvaluated ==
    pass.pc = "eval" =>
        /\ CurrentRow.alert_type \in ValidTypes
        /\ CurrentRow.threshold > 0

\* The row the pass is at is eligible and its price lookup gave no price
\* (a price of zero or below, or NULL for a lookup that raised).
NoPriceForRow == pass.eligible /\ pass.price <= 0

C27_NothingDone ==
    (pass.pc # "idle" /\ NoPriceForRow) =>
        /\ pass.pc = "skip" /\ ~pass.triggered
        /\ pass.writes = 0 /\ pass.attempted = <<>>

C27_PassGoesOn ==
    /\ (pass.pc = "eval" /\ pass'.pc # "idle" /\ pass'.eligible /\ pass'.price <= 0)
          => alerts' = alerts /\ armed' = armed
    /\ (pass.pc = "skip" /\ NoPriceForRow /\ pass' # pass) =>
          /\ alerts' = alerts /\ armed' = armed
          /\ IF pass.idx < Len(pass.rows)
             THEN pass'.pc = "eval" /\ pass'.idx = pass.idx + 1 /\ pass'.rows = pass.rows
             ELSE pass'.pc = "idle"

\* C27: when the price lookup of an eligible rule gives a price of zero or
\* below, or raises, the pass writes no status of the rule and makes no
\* delivery for it, and goes on with the next row of the pass.
C27_SkippedWithoutPrice == [](C27_NothingDone) /\ [][C27_PassGoesOn]_vars

\* A price_below rule that a price of 0 would satisfy is skipped, with
\* another row of the pass still to come.
C27_Witness ==
    /\ pass.pc = "skip" /\ pass.eligible /\ pass.price = 0
    /\ CurrentRow.alert_type = "price_below" /\ CurrentRow.threshold > 0
    /\ pass.idx < Len(pass.rows)

(***************************************************************************)
(* Properties of the PnL rules                                             *)
(***************************************************************************)
\* The position's PnL percentage at price p, in hundredths of a percent and
\* multiplied by the entry price: (p - entry) / entry * 100 for a long
\* position, (entry - p) / entry * 100 for a short one.
PnlPercentTimesEntry(row, p) ==
    IF row.side = "long" THEN (p - row.entry_price) * 10000
                         ELSE (row.entry_price - p) * 10000

RunOutcomes == {"success", "analysis_failed", "unsupported", "no_positions"}

\* C5: every run of run_single_monitor on an existing monitor row, whatever
\* its outcome (success, analysis failure, unsupported type, no positions),
\* has written last_run_at = now and next_run_at = now + interval and has
\* incremented run_count by one when it returns.
C5_EveryRunAdvances ==
    (run.pc = "returned" /\ run.result \in RunOutcomes) =>
        /\ run.wrote_at # NULL
        /\ monitors[run.monitor_id].last_run_at = run.wrote_at
        /\ monitors[run.monitor_id].run_count = run.before + 1

(***************************************************************************)
(* Notification dispatch                                                   *)
(***************************************************************************)
\* The last attempt made for channel c.
LastAttempt(c) ==
    LET last == CHOOSE i \in 1..Len(ns.attempts) :
                    /\ ns.attempts[i].channel = c
                    /\ \A j \in (i + 1)..Len(ns.attempts) : ns.attempts[j].channel # c
    IN ns.attempts[last]

\* C6: notify_signal attempts every channel of its list whatever the earlier
\* channels did (fail or raise), and the map it returns holds exactly one
\* {ok, error} outcome for every channel attempted, the outcome of that
\* channel's attempt.
C6_IndependentChannels ==
    ns.pc = "returned" =>
        /\ Len(ns.attempts) = Len(ns.channels)
        /\ \A i \in 1..Len(ns.channels) : ns.attempts[i].channel = Lower(Strip(ns.channels[i]))
        /\ { r.channel : r \in ns.results } = { ns.attempts[i].channel : i \in 1..Len(ns.attempts) }
        /\ \A r, q \in ns.results : r.channel = q.channel => r = q
        /\ \A r \in ns.results : r = LastAttempt(r.channel)

\* The scenario of C6: webhook unreachable, telegram valid.
C6_Witness ==
    /\ ns.pc = "returned"
    /\ ns.channels = <<"webhook", "telegram">>
    /\ \E r \in ns.results : r.channel = "webhook" /\ ~r.ok
    /\ [channel |-> "telegram", ok |-> TRUE, error |-> ""] \in ns.results

(***************************************************************************)
(* Realtime price ladder and cache                                         *)
(***************************************************************************)
\* C8: when get_realtime_price returns with source ticker, kline_1m or
\* kline_1d, the returned price is > 0 (a ladder step that yields a price
\* <= 0 does not end the ladder).
C8_SourcedPriceIsPositive ==
    (call.n > 0 /\ call.result.source \in {"ticker", "kline_1m", "kline_1d"}) =>
        call.result.price > 0

\* Two successive calls without force_refresh, the later one inside the TTL
\* window of the earlier one.
TwoCallsWithinTtl ==
    /\ call.n >= 2
    /\ ~prevCall.force_refresh
    /\ ~call.force_refresh
    /\ call.time < prevCall.window_end

\* C9 (as stated): two calls of get_realtime_price within the TTL window
\* without force_refresh return identical results, whatever the providers
\* return at the second call.
C9_SameWithinTtl == TwoCallsWithinTtl => call.result = prevCall.result

\* C9 (amended): two successive calls without force_refresh return identical
\* results when the first returned a result with a source (not "unknown") and
\* the second is made before the snapshot the first used or wrote expires.
C9_SameWhileSnapshotServed ==
    (TwoCallsWithinTtl /\ prevCall.result.source # "unknown") => call.result = prevCall.result

\* A second call inside the window, later than the first, at which the ticker
\* would have given another price, and which returned the first call's result.
C9_Witness ==
    /\ TwoCallsWithinTtl
    /\ prevCall.result.source # "unknown"
    /\ call.time > prevCall.time
    /\ call.ticker > 0
    /\ call.ticker # prevCall.result.price
    /\ call.result = prevCall.result

\* C10: a call with force_refresh = true is served from no cached entry,
\* neither the realtime snapshot nor a cached candle list, and when a ladder
\* step succeeds the refreshed value is in the realtime cache afterwards.
C10_ForceBypassesCache ==
    (call.n > 0 /\ call.force_refresh) =>
        /\ ~call.snapshot_cached
        /\ ~call.kline_cached
        /\ call.result.source # "unknown" =>
              /\ cache["realtime_price"].value = call.result
              /\ cache["realtime_price"].expires > call.time

\* C11: a get_kline call with before_time returns the provider's list, is
\* never served from a cache entry, and leaves the cache as it was (no entry
\* written or changed).
C11_Unserved == (kcall.n > 0 /\ kcall.before_time) => (~kcall.cached /\ kcall.klines = kcall.answer)

C11_CacheKept == (kcall'.n # kcall.n /\ kcall'.before_time) => cache' = cache

C12_UnknownWhenAllFail ==
    (call.n > 0 /\ call.all_failed) => (call.result = UnknownPrice /\ ~call.raised)

\* All steps failed with the ticker raising, after an earlier call had a price.
C12_Witness ==
    /\ call.n > 0
    /\ call.all_failed
    /\ call.ticker = NULL
    /\ prevCall.result.price > 0
    /\ call.result = UnknownPrice

\* The call before the last one ran the ladder and found nothing, and the last
\* call came without force_refresh.
CallAfterFailure == call.n >= 2 /\ prevCall.all_failed /\ ~call.force_refresh

\* C36 (as stated): get_realtime_price never writes the source = "unknown"
\* result to the cache, and after a call in which all ladder steps failed the
\* next call without force_refresh queries the providers again (it is not
\* served from the realtime snapshot).
C36_RequeriesAfterFailure ==
    /\ cache["realtime_price"].expires > 0 => cache["realtime_price"].value.source # "unknown"
    /\ CallAfterFailure => ~call.snapshot_cached

\* A call in which all steps failed leaves the realtime snapshot as it was.
FailureLeavesSnapshot ==
    (call'.n # call.n /\ call'.all_failed) => cache'["realtime_price"] = cache["realtime_price"]

\* C36 (amended): the source = "unknown" result is never written to the
\* cache: a call in which all steps failed leaves the realtime snapshot as
\* it was, and no call is served an "unknown" result from the cache.  After
\* such a call the next call without force_refresh queries the providers
\* again when the failing call came without force_refresh too; after a
\* failing call with force_refresh it may be served the snapshot an earlier
\* successful call wrote, which has a source.
C36_FailureNeverCached ==
    /\ [](cache["realtime_price"].expires > 0 => cache["realtime_price"].value.source # "unknown")
    /\ []((call.n > 0 /\ call.snapshot_cached) => call.result.source # "unknown")
    /\ []((CallAfterFailure /\ ~prevCall.force_refresh) => ~call.snapshot_cached)
    /\ [][FailureLeavesSnapshot]_vars

\* A failed call without force_refresh, then a call without force_refresh
\* less than 30 s later that got its price from the ticker.
C36_Witness ==
    /\ CallAfterFailure
    /\ ~prevCall.force_refresh
    /\ call.time < prevCall.time + TickerTtl
    /\ ~call.snapshot_cached
    /\ call.result.source = "ticker"


(***************************************************************************)
(* Properties of the candle queries                                        *)
(***************************************************************************)
\* Position of a provider in the chains of the A-share and H-share resolvers.
ChainRank(p) ==
    CASE p = "tencent" -> 1
      [] p = "eastmoney" -> 2
      [] p = "yfinance" -> 3
      [] p = "finnhub" -> 4
      [] p = "akshare" -> 5
      [] OTHER -> 6

ChainQuery == query.market \in {"AShare", "HShare"}

Invoked(p) == \E i \in 1..Len(query.invoked) : query.invoked[i] = p

NothingYielded == \A i \in 1..Len(query.yields) : ~query.yields[i]

C15_IncreasingWithinLimit ==
    query.pc = "done" =>
        /\ \A i \in 1..(Len(query.result) - 1) :
              query.result[i].time < query.result[i + 1].time
        /\ Len(query.result) <= query.limit

\* C16: with a (positive) before_time given, every candle a query returns is
\* earlier than before_time, whichever provider answered.
C16_AllBeforeTime ==
    query.pc = "done" /\ query.before_time > 0 =>
        \A i \in 1..Len(query.result) : query.result[i].time < query.before_time

(***************************************************************************)
(* Properties of the aggregations                                          *)
(***************************************************************************)
\* Days in a bucket of a calendar timeframe.
BucketDays(timeframe) == IF timeframe = "1W" THEN DaysPerWeek ELSE MonthDays

\* The calendar period (week or month of the server's local calendar) a
\* timestamp falls in.
Period(timeframe, ts, tz) == ((ts + tz) \div HoursPerDay) \div BucketDays(timeframe)

\* Indexes of the source candles of the k-th bucket (k = 1 is the oldest).
BucketMembers(k) ==
    IF agg.timeframe = "4H"
    THEN {i \in 1..Len(agg.source) : (i - 1) \div BatchSize = k - 1}
    ELSE LET periods == {Period(agg.timeframe, agg.source[i].time, agg.tz) : i \in 1..Len(agg.source)}
             p == CHOOSE p \in periods : Cardinality({r \in periods : r < p}) = k - 1
         IN {i \in 1..Len(agg.source) : Period(agg.timeframe, agg.source[i].time, agg.tz) = p}

BucketCount ==
    IF agg.timeframe = "4H"
    THEN (Len(agg.source) + BatchSize - 1) \div BatchSize
    ELSE Cardinality({Period(agg.timeframe, agg.source[i].time, agg.tz) : i \in 1..Len(agg.source)})

\* When the k-th bucket starts: at its first candle for a window of four
\* candles, at the first instant of the week or month for a calendar bucket.
BucketStart(k) ==
    LET first == agg.source[MinOf(BucketMembers(k))]
    IN IF agg.timeframe = "4H" THEN first.time
       ELSE Period(agg.timeframe, first.time, agg.tz) * BucketDays(agg.timeframe) * HoursPerDay - agg.tz

RequiredCount == IF agg.timeframe = "4H" THEN BatchSize ELSE BucketDays(agg.timeframe)

\* C17: a synthetic candle has the open of the first and the close of the last
\* source candle of its bucket, the highest high, the lowest low, the sum of
\* the volumes, and the bucket's start as its time.
C17_AggregationRule ==
    agg.done =>
        /\ Len(agg.all) <= BucketCount
        /\ \A k \in 1..Len(agg.all) :
              LET m == BucketMembers(k)
                  c == agg.all[k]
              IN /\ c.open = agg.source[MinOf(m)].open
                 /\ c.close = agg.source[MaxOf(m)].close
                 /\ \A i \in m : c.high >= agg.source[i].high /\ c.low <= agg.source[i].low
                 /\ \E i \in m : c.high = agg.source[i].high
                 /\ \E i \in m : c.low = agg.source[i].low
                 /\ c.volume = SumVolume([j \in 1..Cardinality(m) |-> agg.source[MinOf(m) + j - 1]])
                 /\ c.time = BucketStart(k)

\* C18: when the newest bucket holds fewer source candles than a bucket
\* requires, no candle is produced for it.
C18_PartialTrailingDropped ==
    (agg.done /\ BucketCount > 0
       /\ Cardinality(BucketMembers(BucketCount)) < RequiredCount)
    => Len(agg.all) < BucketCount

(***************************************************************************)
(* Properties of the webhook delivery                                      *)
(***************************************************************************)
\* C19: a webhook delivery makes at most two POSTs; the second is made exactly
\* when the first response is 429 or 5xx, BackoffSeconds after it; the outcome
\* is ok exactly when the last POST made was answered with 2xx.
C19_RetryOnceOn429Or5xx ==
    /\ Len(wh.attempts) <= 2
    /\ wh.pc = "done" /\ wh.attempts # <<>> =>
          LET first == wh.attempts[1].status
              last == wh.attempts[Len(wh.attempts)].status
          IN /\ Len(wh.attempts) = 2
                   <=> (first # NULL /\ (first = 429 \/ (500 <= first /\ first <= 599)))
             /\ Len(wh.attempts) = 2 =>
                   wh.attempts[2].time = wh.attempts[1].time + BackoffSeconds
             /\ wh.ok <=> (last # NULL /\ 200 <= last /\ last <= 299)

\* C20: with a signing secret every POST of the delivery carries the one
\* serialization of the payload, the timestamp taken when the call began and
\* the HMAC-SHA256 of timestamp "." body under the secret, whatever headers
\* the caller asked for.
C20_SignedOnceSentTwice ==
    wh.secret # "" =>
        \A i \in 1..Len(wh.attempts) :
            LET a == wh.attempts[i]
            IN /\ a.body = JsonDumps(wh.payload)
               /\ a.headers["X-QD-Timestamp"] = <<Str(wh.started)>>
               /\ a.headers["X-QD-Signature"]
                     = <<"hmac-sha256", wh.secret, Str(wh.started), ".", a.body>>
               /\ a.body = wh.attempts[1].body /\ a.headers = wh.attempts[1].headers

\* A signed delivery was retried while the caller had asked for its own
\* X-QD-Timestamp and X-QD-Signature.
C20_Witness ==
    /\ wh.secret # "" /\ Len(wh.attempts) = 2
    /\ "X-QD-Signature" \in DOMAIN wh.overrides
    /\ wh.attempts[2].time > wh.started

(***************************************************************************)
(* Properties of the Discord delivery                                      *)
(***************************************************************************)
EmbedPosts == {i \in 1..Len(dc.posts) : dc.posts[i].kind = "embed"}
TextPosts == {i \in 1..Len(dc.posts) : dc.posts[i].kind = "text"}
Answered2xx(i) == dc.posts[i].status # NULL /\ 200 <= dc.posts[i].status /\ dc.posts[i].status <= 299

\* What C21 and its amended form share: the embed goes first, it is repeated
\* only after a 429 and a sleep of 0.5 s to 3 s, at most three posts are made,
\* at most one of them is the plain text, which comes last, and the outcome is
\* ok exactly when some post was answered with 2xx.
DiscordOrder ==
    /\ Len(dc.posts) <= 3
    /\ dc.posts # <<>> => 1 \in EmbedPosts
    /\ Cardinality(EmbedPosts) <= 2 /\ Cardinality(TextPosts) <= 1
    /\ \A i \in TextPosts : i = Len(dc.posts)
    /\ 2 \in EmbedPosts =>
          /\ dc.posts[1].status = 429
          /\ Len(dc.slept) = 1
          /\ MinRetrySleep <= dc.slept[1] /\ dc.slept[1] <= MaxRetrySleep
    /\ (dc.posts # <<>> /\ dc.posts[1].status = 429 /\ dc.pc \in {"fallback", "done"})
          => 2 \in EmbedPosts
    /\ dc.pc = "done" => (dc.ok <=> \E i \in 1..Len(dc.posts) : Answered2xx(i))

\* C21 as stated: besides the order above, a delivery that gives up after
\* any failed post has made the plain-text post.
C21_FallbackOnAnyFailure ==
    /\ DiscordOrder
    /\ (dc.pc = "done" /\ ~dc.ok /\ dc.posts # <<>>) => TextPosts # {}

\* C21, amended: the plain-text post is made exactly when the last embed post
\* was answered with a status outside 2xx (after the one retry of a 429); an
\* embed post that raised ends the delivery without it.
C21_FallbackOnRejectedEmbed ==
    /\ DiscordOrder
    /\ (dc.pc = "done" /\ dc.posts # <<>>) =>
          LET last == dc.posts[Cardinality(EmbedPosts)].status
          IN TextPosts # {} <=> (last # NULL /\ ~(200 <= last /\ last <= 299))

\* A 429 with retry_after above 3 s, the embed rejected again, then the plain
\* text accepted.
C21_Witness ==
    /\ dc.pc = "done" /\ dc.ok /\ Len(dc.posts) = 3
    /\ dc.slept = <<MaxRetrySleep>>
    /\ dc.posts[3].kind = "text"

(***************************************************************************)
(* Properties of the senders                                               *)
(***************************************************************************)
\* The call was made without something its channel requires.
MissingRequirement ==
    \/ snd.target = ""
    \/ snd.channel = "telegram" /\ Strip(snd.user[1]) = "" /\ Strip(snd.user[2]) = ""
    \/ snd.channel \in {"email", "phone"} /\ \E i \in 1..Len(snd.shared) : snd.shared[i] = ""

MissingErrors ==
    { "missing_telegram_bot_token", "missing_telegram_chat_id", "missing_email_target",
      "missing_SMTP_HOST", "missing_SMTP_FROM", "missing_phone_target",
      "missing_TWILIO_config" }

IsPrefix(s, t) == Len(s) <= Len(t) /\ s = SubSeq(t, 1, Len(s))

\* The iteration is over: the loop sleeps, tests its condition or has ended.
IterationOver == loop.pc \in {"sleep", "cond", "exited"}

C28_BoundedDueBatch ==
    /\ Len(loop.rows) <= BatchLimit /\ Len(loop.started) <= BatchLimit
    /\ IsPrefix(loop.started, loop.rows)
    /\ \A k \in 1..Len(loop.rows) :
          /\ loop.snapshot[loop.rows[k]].is_active
          /\ loop.snapshot[loop.rows[k]].next_run_at # NULL
          /\ loop.snapshot[loop.rows[k]].next_run_at <= loop.queried_at
          /\ \A l \in (k + 1)..Len(loop.rows) :
                /\ loop.rows[k] # loop.rows[l]
                /\ loop.snapshot[loop.rows[k]].next_run_at
                      <= loop.snapshot[loop.rows[l]].next_run_at
    /\ loop.started # <<>> => loop.alert_idx = loop.alert_rows
    /\ loop.pc = "alerts" => loop.rows = <<>> /\ loop.started = <<>>

\* More monitors were due than the batch holds; the ten with the earliest
\* next_run_at were run, beginning with another than id 1, after an alert
\* pass over two rows.
C28_Witness ==
    /\ Len(loop.ran) = BatchLimit
    /\ Cardinality(Due(loop.snapshot, loop.queried_at)) > BatchLimit
    /\ loop.rows[1] # 1 /\ loop.alert_rows = 2

\* C31: an alert row that raises and a monitor run that raises end inside
\* their own turn of the loop.  The alert pass handles every row it fetched,
\* a run that is over is followed by the batch loop and not by the end of the
\* iteration, only the stop signal leaves monitors of the batch out, every
\* iteration that has begun comes back to the loop condition, and from there
\* the loop enters its next iteration unless the signal is set.
C31_FailuresAbsorbed ==
    /\ [][loop.pc = "alerts" /\ loop.alert_idx < loop.alert_rows => loop'.pc = "alerts"]_vars
    /\ [][loop.pc = "running" => loop'.pc \in {"running", "batch"}]_vars
    /\ [](loop.iteration > 0 /\ loop.pc # "alerts" => loop.alert_idx = loop.alert_rows)
    /\ []((IterationOver /\ loop.queried_at # NULL /\ ~loop.stop) => loop.ran = loop.rows)
    /\ [][loop.pc = "cond" /\ loop'.pc # "cond" /\ ~loop.stop
            => loop'.pc = "alerts" /\ loop'.iteration = loop.iteration + 1]_vars
    /\ (loop.pc \notin {"cond", "exited"}) ~> (loop.pc = "cond")

\* In the first iteration an alert row raised and a monitor run raised; the
\* whole batch of that iteration was run, and the second iteration has run
\* its alert pass and begun a run.
C31_Witness ==
    /\ loop.absorbed.alert = 1 /\ loop.absorbed.monitor = 1
    /\ loop.iteration = 2 /\ loop.pc = "running" /\ loop.alert_rows = 2
    /\ ~loop.stop

\* C34: no active, due monitor is starved by the batch limit.  With
\* MaxMonitors monitors a query leaves a due monitor out of its batch only
\* while monitors due before it are waiting, so it is left out of at most
\* (MaxMonitors - 1) \div BatchLimit queries in a row before it is run.
C34_NoStarvation ==
    \A m \in ScheduledIds : loop.passed_over[m] <= (MaxMonitors - 1) \div BatchLimit

(***************************************************************************)
(* Properties of the rate limiter                                          *)
(***************************************************************************)
\* The passes of a market, in the order they were made.
PassesOf(market) == SelectSeq(rl.passes, LAMBDA p : p.market = market)

\* C25: two passes of the rate limiter for the same market are at least
\* RequestInterval apart, and each acts on the last-call time the pass before
\* it wrote: no two passes act on the same value.
C25_SpacedPerMarket ==
    \A market \in LimitedMarkets :
        LET ps == PassesOf(market)
        IN \A i \in 1..Len(ps) :
              /\ ps[i].last_time = (IF i = 1 THEN 0 ELSE ps[i - 1].time)
              /\ i > 1 => ps[i].time - ps[i - 1].time >= RequestInterval

\* Three workers at once: the second for the same market took the lock the
\* moment the first released it and slept RequestInterval inside it, and the
\* third, for another market, passed only once the lock was free again.
C25_Witness ==
    /\ Len(rl.passes) = 3
    /\ rl.passes[1].market = "Crypto" /\ rl.passes[1].time = ClockStart
    /\ rl.passes[2].market = "Crypto" /\ rl.passes[2].now = ClockStart
    /\ rl.passes[2].time = ClockStart + RequestInterval
    /\ rl.passes[3].market = "USStock" /\ rl.passes[3].time = ClockStart + RequestInterval
    /\ {rl.passes[i].worker : i \in 1..3} = PoolWorkers

\* The workers inside the `with _request_lock` block.
InsideLimiter == {k \in PoolWorkers : rl.w[k].pc = "wait"}

\* Worker k sleeps out a throttle wait that is not over yet.
Sleeping(k) ==
    /\ rl.w[k].pc = "wait"
    /\ rl.clock < rl.w[k].now + RequestInterval - (rl.w[k].now - rl.w[k].last_time)

\* The worker inside the block is the holder of the lock, there is at most
\* one, and the passes follow one another: each entered the block (read the
\* clock) no earlier than the pass before it left.
C38_OneInside ==
    /\ \A k \in PoolWorkers : rl.w[k].pc = "wait" <=> rl.lock = k
    /\ Cardinality(InsideLimiter) <= 1
    /\ \A i \in 1..(Len(rl.passes) - 1) : rl.passes[i].time <= rl.passes[i + 1].now

\* A worker enters the block, and a worker passes the limiter, only while
\* no other worker is inside it.
C38_OthersHeldBack ==
    \A k \in PoolWorkers :
      (rl.w[k].pc = "acquire" /\ rl'.w[k].pc = "wait") \/ (rl.w[k].pc = "wait" /\ rl'.w[k].pc = "lookup")
        => InsideLimiter \subseteq {k}

\* C38: the lock is held through the throttle sleep: at most one worker at a
\* time is inside the limiter, and while a worker sleeps there no worker for
\* any market enters or passes it.
C38_SleepsInsideLock == [](C38_OneInside) /\ [][C38_OthersHeldBack]_vars

\* A Crypto lookup sleeps out its wait while a USStock lookup, which has no
\* wait of its own to sleep (no USStock call was made yet), stands at the lock.
C38_Witness ==
    \E k, j \in PoolWorkers :
        /\ rl.w[k].market = "Crypto" /\ Sleeping(k) /\ rl.clock > rl.w[k].now
        /\ rl.w[j].market = "USStock" /\ rl.w[j].pc = "acquire"
        /\ rl.last["USStock"] = 0


(***************************************************************************)
(* Properties of the price fan-out                                         *)
(***************************************************************************)
\* C29: a lookup whose future times out or raises leaves its positions with
\* current price 0; every other lookup of the request is still collected and
\* gives its positions their price; the request answers with success.
C29_TimeoutIsUnknownPrice ==
    /\ pr.pc = "done" =>
          /\ pr.code = 1
          /\ Len(pr.outcomes) = Len(pr.futures)
          /\ \A i \in 1..Len(pr.rows) :
                LET key == pr.rows[i]
                IN /\ (key \in pr.missed \/ key = "") => pr.current_price[i] = 0
                   /\ (key = "" /\ pr.route = "positions") =>
                         \A k \in 1..Len(pr.futures) : pr.futures[k] # key
                   /\ \A k \in 1..Len(pr.futures) :
                         (pr.futures[k] = key /\ key \notin pr.missed
                            /\ pr.outcomes[k].result = "price")
                           => pr.current_price[i] = PriceOf(key)

\* The first lookup timed out and the second, done 12 s after the start, was
\* still collected: the rows of A have price 0, the row of B its price.
C29_Witness ==
    /\ pr.pc = "done" /\ pr.rows = <<"A", "B", "A">>
    /\ pr.missed = {"A"} /\ pr.outcomes[1].done_at = 12 /\ pr.outcomes[1].result = "price"
    /\ pr.outcomes[2].done_at = 12
    /\ pr.current_price = <<0, PriceOf("B"), 0>>

(***************************************************************************)
(* Properties of the AI analysis                                           *)
(***************************************************************************)
\* The positions that have a market and a symbol, in position order.
AnalysableOf(ps) == SelectSeq(ps, Analysable)

\* One entry per position with a market and a symbol, in position order.
EntriesFollowPositions ==
    LET ps == AnalysableOf(an.positions)
    IN /\ Len(an.position_analyses) = Len(ps)
       /\ \A i \in 1..Len(ps) :
             /\ an.position_analyses[i].market = ps[i].market
             /\ an.position_analyses[i].symbol = ps[i].symbol

\* C30: when a monitor run's analysis has returned, it reports success, its
\* result holds exactly one entry per position that has a market and a symbol,
\* in position order, and the entry of every position whose analysis call
\* failed carries an error (a value the result's readers take for an error).
C30_FailureIsolated ==
    an.pc = "done" =>
        /\ an.success
        /\ EntriesFollowPositions
        /\ \A i \in 1..Len(an.position_analyses) :
              an.handled[i] => HasError(an.position_analyses[i].error)

\* The same with the error as the code writes it: str(e), whatever it is.
FailureIsolatedStructurally ==
    an.pc = "done" =>
        /\ an.success
        /\ EntriesFollowPositions
        /\ \A i \in 1..Len(an.position_analyses) :
              an.handled[i] => /\ an.position_analyses[i].error # <<>>
                               /\ an.position_analyses[i].final_decision = <<>>

\* A run in which a failed analysis is shown as a HOLD and counted as analysed.
FailureShownAsHold ==
    /\ an.pc = "done"
    /\ \E i \in 1..Len(an.position_analyses) :
          /\ an.handled[i]
          /\ an.rendered[i] = "HOLD"
          /\ an.analyzed_count = Len(an.position_analyses)

(***************************************************************************)
(* Properties of the A-share symbol mappings                               *)
(***************************************************************************)
\* The exchange a provider code names; Eastmoney numbers Shanghai 1 and
\* Shenzhen and Beijing 0.
TencentExchange(code) ==
    IF code = <<>> THEN "none"
    ELSE CASE code[1] = "sh" -> "Shanghai" [] code[1] = "sz" -> "Shenzhen" [] OTHER -> "Beijing"
YahooExchange(code) ==
    IF code = <<>> THEN "none"
    ELSE CASE code[2] = ".SS" -> "Shanghai" [] code[2] = ".SZ" -> "Shenzhen" [] OTHER -> "Beijing"
EastmoneyMarket(exchange) == IF exchange = "Shanghai" THEN "1" ELSE "0"

AllPathsTaken ==
    /\ sym.tencent # NotComputed /\ sym.yahoo # NotComputed
    /\ sym.kline_secid # NotComputed /\ sym.ticker_secid # NotComputed

\* C33: every symbol has a code for every provider, the codes are made from
\* the first digit by the one table (6 Shanghai, 0 and 3 Shenzhen, 4 and 8
\* Beijing), and all provider paths, the Eastmoney secid of the candle query
\* and that of the ticker query included, name the same exchange.
C33_OneExchangePerSymbol ==
    AllPathsTaken =>
        /\ sym.tencent # <<>> /\ sym.yahoo # <<>>
        /\ YahooExchange(sym.yahoo) = TencentExchange(sym.tencent)
        /\ sym.kline_secid[1] = EastmoneyMarket(TencentExchange(sym.tencent))
        /\ sym.ticker_secid[1] = sym.kline_secid[1]
        /\ StartsWith(sym.symbol, "6") => TencentExchange(sym.tencent) = "Shanghai"
        /\ (StartsWith(sym.symbol, "0") \/ StartsWith(sym.symbol, "3"))
              => TencentExchange(sym.tencent) = "Shenzhen"
        /\ (StartsWith(sym.symbol, "4") \/ StartsWith(sym.symbol, "8"))
              => TencentExchange(sym.tencent) = "Beijing"

\* What does hold: the symbols that begin with one of the five digits of the
\* table have all their codes and name one exchange everywhere.
TableDigitsAgree ==
    (AllPathsTaken /\ \E c \in {"6", "0", "3", "4", "8"} : StartsWith(sym.symbol, c)) =>
        /\ sym.tencent # <<>> /\ sym.yahoo # <<>>
        /\ YahooExchange(sym.yahoo) = TencentExchange(sym.tencent)
        /\ sym.kline_secid[1] = EastmoneyMarket(TencentExchange(sym.tencent))
        /\ sym.ticker_secid[1] = sym.kline_secid[1]

\* A symbol that begins with 9 (a Shanghai B share) has no Tencent and no
\* Yahoo code, and its two Eastmoney secids name different markets.
SecidsDisagree ==
    /\ AllPathsTaken /\ StartsWith(sym.symbol, "9")
    /\ sym.tencent = <<>> /\ sym.yahoo = <<>>
    /\ sym.kline_secid[1] = "0" /\ sym.ticker_secid[1] = "1"

(***************************************************************************)
(* Properties of the monitor service                                       *)
(***************************************************************************)
\* C35: whatever the start and stop calls, at most one thread runs the
\* scheduler loop: since the last start_monitor_service at most one thread
\* has passed the loop's while test and entered an iteration, also when the
\* join of the stop before it ran out of time.
C35_AtMostOneLoop ==
    Cardinality(svc.entered) <= 1

\* The join of a stop ran out of time on thread 1, the service was started
\* again, and both the old thread and the new one have entered an iteration
\* since, with the stop event clear.
TwoLoopsRunning ==
    /\ svc.entered = {1, 2} /\ ~svc.stop_event /\ svc.monitor_thread = 2
    /\ svc.thread[1] = "iteration" /\ svc.thread[2] = "iteration"
====
